---------------------------- MODULE Spec2Model ----------------------------
(***************************************************************************)
(* A model of the per-test pipeline of compiletest-rs: the directive       *)
(* scanner and parser (src/src/header.rs), the expected-error matcher and  *)
(* the mode-dispatched test plans (src/src/runtest.rs).                    *)
(*                                                                         *)
(* Strings are sequences of one-character strings, so that slicing,        *)
(* searching and trimming are computed as the Rust code computes them.     *)
(* Option<T> is a sequence of length 0 (None) or 1 (Some).                 *)
(***************************************************************************)
EXTENDS Integers, Sequences, FiniteSets, TLC

(***************************************************************************)
(* Bounds of the model.                                                    *)
(***************************************************************************)
MaxHeaderLines == 3

MaxExpected == 2

MaxActual == 2

(***************************************************************************)
(* State.  Three state machines share the module: the scan of one file     *)
(* (h_), one call of the expected-error matcher (m_) and one call of       *)
(* runtest::run (r_).  A specification runs one of them and leaves the     *)
(* variables of the others idle.                                           *)
(***************************************************************************)
\* header.rs: iter_header and TestProps::load_from on one file.
VARIABLES
    h_file,      \* the test file: [is_dir, lines]
    h_cfg,       \* the revision the scan is called with (Option)
    h_config,    \* the Config the parser reads
    h_env,       \* the harness's ambient environment: (key, value) pairs
    h_i,         \* lines consumed by iter_header so far
    h_emitted,   \* directives passed to the callback: [idx, text]
    h_props,     \* the TestProps under construction
    h_pc         \* "scan", "env", "done", "panic"

hvars == <<h_file, h_cfg, h_config, h_env, h_i, h_emitted, h_props, h_pc>>

\* runtest.rs: TestCx::check_expected_errors.
VARIABLES
    m_success,     \* proc_res.status.success() of the compile
    m_expected,    \* expected_errors, as loaded from the `//~` annotations
    m_actual,      \* actual_errors, as parsed from the JSON diagnostics
    m_found,       \* found: one flag per expected entry
    m_unexpected,  \* unexpected: indices of the actual errors pushed
    m_not_found,   \* not_found: indices of the expected errors pushed
    m_j,           \* actual errors processed by the loop
    m_pairs,       \* history: [a, e], actual a was matched with expected e
    m_fatal,       \* the message of the fatal error, if any
    m_pc           \* "entry", "loop", "verdict", "returned", "panic"

mvars == <<m_success, m_expected, m_actual, m_found, m_unexpected,
           m_not_found, m_j, m_pairs, m_fatal, m_pc>>

\* runtest.rs: run on one test.
VARIABLES
    r_config,      \* the Config, with the fields run reads
    r_file,        \* testpaths.file: [is_dir, lines]
    r_env,         \* the harness's ambient environment
    r_base_props,  \* base_props
    r_idx,         \* revisions begun so far
    r_revision,    \* TestCx.revision of the revision under way (Option)
    r_props,       \* TestCx.props of the revision under way
    r_aux_i,       \* auxiliary builds done for the compile under way
    r_aux_files,   \* the files under auxiliary/: path -> content
    r_aux_log,     \* the auxiliary builds of the compile under way, in order
    r_proc,        \* proc_res of the compile (or of make): Option
    r_exec,        \* proc_res of the executed test: Option
    r_expected,    \* the result of errors::load_errors, once called: Option
    r_reference,   \* the reference output of a ui test, once loaded: Option
    r_checks,      \* history: the checks made on the revision under way
    r_ran,         \* history: [revision, props] of every run_revision call
    r_fatal,       \* the message of the fatal error: Option
    r_stamp,       \* the stamp file has been created
    r_pc           \* "start", "next", "compile", "exec", "rmake", "done", "failed"

rvars == <<r_config, r_file, r_env, r_base_props, r_idx, r_revision, r_props, r_aux_i, r_aux_files, r_aux_log,
           r_proc, r_exec, r_expected, r_reference, r_checks, r_ran, r_fatal, r_stamp,
           r_pc>>

\* runtest.rs: TestCx::normalize_output.
VARIABLES
    n_parent_dir,     \* testpaths.file.parent()
    n_compile_flags,  \* props.compile_flags
    n_output,         \* output
    n_rules,          \* custom_rules: (from, to) pairs
    n_once,           \* the result of the call: Option
    n_twice,          \* the result of a second call on n_once: Option
    n_pc              \* "call", "once", "twice"

nvars == <<n_parent_dir, n_compile_flags, n_output, n_rules, n_once, n_twice, n_pc>>

\* header.rs: EarlyProps::from_file.
VARIABLES
    e_config,   \* the Config, with system_llvm and llvm_version
    e_lines,    \* the lines of the test file
    e_i,        \* lines consumed
    e_props,    \* the EarlyProps so far
    e_pc        \* "scan", "done", "panic"

evars == <<e_config, e_lines, e_i, e_props, e_pc>>

\* runtest.rs: read2_abbreviated, the capture of one pipe of a child.
VARIABLES
    c_stable,   \* the build has the feature "stable"
    c_sizes,    \* the sizes of the chunks read2 delivers
    c_i,        \* chunks delivered
    c_read,     \* bytes delivered
    c_out,      \* the ProcOutput
    c_bytes,    \* into_bytes, an Option
    c_pc        \* "read", "done"

cvars == <<c_stable, c_sizes, c_i, c_read, c_out, c_bytes, c_pc>>

\* runtest.rs: TestCx::run_pretty_test.
VARIABLES
    p_stable,     \* the build has the feature "stable"
    p_cx,         \* the TestCx: props and revision
    p_files,      \* the test file and the file pp_exact names: path -> content
    p_srcs,       \* srcs
    p_round,      \* round
    p_compared,   \* the arguments of compare_source, once called: Option
    p_log,        \* history: the child processes, in order
    p_fatal,      \* the message of the fatal error: Option
    p_pc          \* "start", "round", "compare", "typecheck", "expanded", "typecheck_expanded", "done", "failed"

pvars == <<p_stable, p_cx, p_files, p_srcs, p_round, p_compared, p_log, p_fatal, p_pc>>

vars == <<hvars, mvars, rvars, nvars, evars, cvars, pvars>>

\* The variables each machine leaves alone.
NotHeader == <<mvars, rvars, nvars, evars, cvars, pvars>>

NotMatch == <<hvars, rvars, nvars, evars, cvars, pvars>>

NotRun == <<hvars, mvars, nvars, evars, cvars, pvars>>

NotNormalize == <<hvars, mvars, rvars, evars, cvars, pvars>>

NotEarly == <<hvars, mvars, rvars, nvars, cvars, pvars>>

NotCapture == <<hvars, mvars, rvars, nvars, evars, pvars>>

NotPretty == <<hvars, mvars, rvars, nvars, evars, cvars>>

(***************************************************************************)
(* Option and string primitives (the std operations the code calls).       *)
(***************************************************************************)
None == <<>>

Some(x) == <<x>>

IsWhitespace(c) == c \in {" ", "\t", "\n", "\r"}

StartsWith(s, p) == Len(p) <= Len(s) /\ SubSeq(s, 1, Len(p)) = p

EndsWith(s, p) == Len(p) <= Len(s) /\ SubSeq(s, Len(s) - Len(p) + 1, Len(s)) = p

SliceFrom(s, i) == SubSeq(s, i, Len(s))

RECURSIVE TrimLeft(_)
TrimLeft(s) ==
    IF s # <<>> /\ IsWhitespace(Head(s)) THEN TrimLeft(Tail(s)) ELSE s

RECURSIVE TrimRight(_)
TrimRight(s) ==
    IF s # <<>> /\ IsWhitespace(s[Len(s)])
    THEN TrimRight(SubSeq(s, 1, Len(s) - 1))
    ELSE s

Trim(s) == TrimRight(TrimLeft(s))

\* str::find: the 1-based position of the first occurrence, 0 for None.
Find(s, p) ==
    LET hits == {i \in 1..(Len(s) - Len(p) + 1) : SubSeq(s, i, i + Len(p) - 1) = p}
    IN  IF hits = {} THEN 0 ELSE CHOOSE i \in hits : \A j \in hits : i <= j

Contains(s, p) == Find(s, p) # 0

RECURSIVE ReplaceFrom(_, _, _)
ReplaceFrom(s, from, to) ==
    IF Len(s) < Len(from) THEN s
    ELSE IF StartsWith(s, from)
         THEN to \o ReplaceFrom(SliceFrom(s, Len(from) + 1), from, to)
         ELSE <<Head(s)>> \o ReplaceFrom(Tail(s), from, to)

RECURSIVE Interleave(_, _)
Interleave(s, to) ==
    IF s = <<>> THEN to ELSE to \o <<Head(s)>> \o Interleave(Tail(s), to)

\* str::replace: every non-overlapping match, left to right; an empty
\* pattern matches at every character boundary.
Replace(s, from, to) ==
    IF from = <<>> THEN Interleave(s, to) ELSE ReplaceFrom(s, from, to)

\* str::split on a set of separator characters.
RECURSIVE SplitChars(_, _)
SplitChars(s, seps) ==
    LET hits == {i \in 1..Len(s) : s[i] \in seps}
    IN  IF hits = {} THEN <<s>>
        ELSE LET i == CHOOSE k \in hits : \A j \in hits : k <= j
             IN  <<SubSeq(s, 1, i - 1)>> \o SplitChars(SliceFrom(s, i + 1), seps)

RECURSIVE NonEmpty(_)
NonEmpty(ss) ==
    IF ss = <<>> THEN <<>>
    ELSE IF Head(ss) = <<>> THEN NonEmpty(Tail(ss))
         ELSE <<Head(ss)>> \o NonEmpty(Tail(ss))

SplitWhitespace(s) == NonEmpty(SplitChars(s, {" ", "\t", "\n", "\r"}))

\* str::lines: split on "\n", a final empty piece dropped, a trailing "\r"
\* of each line removed.
Lines(s) ==
    LET raw   == SplitChars(s, {"\n"})
        parts == IF raw[Len(raw)] = <<>> THEN SubSeq(raw, 1, Len(raw) - 1) ELSE raw
    IN  [i \in 1..Len(parts) |->
            IF parts[i] # <<>> /\ parts[i][Len(parts[i])] = "\r"
            THEN SubSeq(parts[i], 1, Len(parts[i]) - 1)
            ELSE parts[i]]

RECURSIVE Join(_, _)
Join(ss, sep) ==
    IF ss = <<>> THEN <<>>
    ELSE IF Len(ss) = 1 THEN ss[1]
         ELSE ss[1] \o sep \o Join(Tail(ss), sep)

SeqsUpTo(S, n) == UNION {[1..k -> S] : k \in 0..n}

(***************************************************************************)
(* header.rs: the directive scanner and the directive parser.              *)
(***************************************************************************)
TestProps_new ==
    [error_patterns |-> <<>>, compile_flags |-> <<>>, run_flags |-> None,
     aux_builds |-> <<>>, revisions |-> <<>>, rustc_env |-> <<>>,
     exec_env |-> <<>>, check_lines |-> <<>>, build_aux_docs |-> FALSE,
     force_host |-> FALSE, check_stdout |-> FALSE, no_prefer_dynamic |-> FALSE,
     pretty_expanded |-> FALSE, pretty_compare_only |-> FALSE,
     forbid_output |-> <<>>, must_compile_successfully |-> FALSE,
     check_test_line_numbers_match |-> FALSE,
     normalize_stdout |-> <<>>, normalize_stderr |-> <<>>]

\* A mutant of parse_cfg_name_directive: a tag that begins the architecture
\* matches it.
parse_cfg_name_directive_arch_prefix(line, prefix, config) ==
    IF StartsWith(line, prefix) /\ Len(line) > Len(prefix) /\ line[Len(prefix) + 1] = "-"
    THEN \E name \in {SplitChars(SliceFrom(line, Len(prefix) + 2), {":", " "})[1]} :
            \/ name = <<"t","e","s","t">>
            \/ StartsWith(SplitChars(config.target, {"-"})[1], name)
    ELSE FALSE

\* A mutant of cfg_matches: a scan without revision accepts every tag.
cfg_matches_any_when_none(cfg, lncfg) ==
    IF cfg # None THEN cfg[1] = lncfg ELSE TRUE

\* The `matches` of iter_header: the revision filter of a tagged line.
cfg_matches(cfg, lncfg) ==
    IF cfg # None THEN cfg[1] = lncfg ELSE FALSE

\* A mutant of iter_header_line: a tagged line without `]` is skipped.
iter_header_line_unclosed_skipped(raw, cfg) ==
    LET ln == Trim(raw)
        close_brace == Find(ln, <<"]">>)
    IN  IF StartsWith(ln, <<"f","n">>) \/ StartsWith(ln, <<"m","o","d">>)
        THEN [kind |-> "stop", text |-> <<>>]
        ELSE IF StartsWith(ln, <<"/","/","[">>)
        THEN IF close_brace # 0 /\ cfg_matches(cfg, SubSeq(ln, 4, close_brace - 1))
             THEN [kind |-> "emit", text |-> TrimLeft(SliceFrom(ln, close_brace + 1))]
             ELSE [kind |-> "skip", text |-> <<>>]
        ELSE IF StartsWith(ln, <<"/","/">>)
        THEN [kind |-> "emit", text |-> TrimLeft(SliceFrom(ln, 3))]
        ELSE [kind |-> "skip", text |-> <<>>]

\* A mutant of iter_header_line: the line is tested for `fn` and `mod` before
\* it is trimmed.
iter_header_line_stop_untrimmed(raw, cfg) ==
    LET ln == Trim(raw)
        close_brace == Find(ln, <<"]">>)
    IN  IF StartsWith(raw, <<"f","n">>) \/ StartsWith(raw, <<"m","o","d">>)
        THEN [kind |-> "stop", text |-> <<>>]
        ELSE IF StartsWith(ln, <<"/","/","[">>)
        THEN IF close_brace = 0 THEN [kind |-> "panic", text |-> <<>>]
             ELSE IF cfg_matches(cfg, SubSeq(ln, 4, close_brace - 1))
             THEN [kind |-> "emit", text |-> TrimLeft(SliceFrom(ln, close_brace + 1))]
             ELSE [kind |-> "skip", text |-> <<>>]
        ELSE IF StartsWith(ln, <<"/","/">>)
        THEN [kind |-> "emit", text |-> TrimLeft(SliceFrom(ln, 3))]
        ELSE [kind |-> "skip", text |-> <<>>]

\* One iteration of the loop of iter_header on the raw line `raw`:
\* "stop" (fn/mod), "emit" (the callback is called with text), "skip",
\* or "panic" (malformed condition directive).
iter_header_line(raw, cfg) ==
    LET ln == Trim(raw)
        close_brace == Find(ln, <<"]">>)
    IN  IF StartsWith(ln, <<"f","n">>) \/ StartsWith(ln, <<"m","o","d">>)
        THEN [kind |-> "stop", text |-> <<>>]
        ELSE IF StartsWith(ln, <<"/","/","[">>)
        THEN IF close_brace # 0
             THEN LET lncfg   == SubSeq(ln, 4, close_brace - 1)
                      matches == cfg_matches(cfg, lncfg)
                  IN  IF matches
                      THEN [kind |-> "emit",
                            text |-> TrimLeft(SliceFrom(ln, close_brace + 1))]
                      ELSE [kind |-> "skip", text |-> <<>>]
             ELSE [kind |-> "panic", text |-> <<>>]
        ELSE IF StartsWith(ln, <<"/","/">>)
        THEN [kind |-> "emit", text |-> TrimLeft(SliceFrom(ln, 3))]
        ELSE [kind |-> "skip", text |-> <<>>]

expand_variables(value, config) ==
    LET v1 == IF Contains(value, <<"{","{","c","w","d","}","}">>)
              THEN Replace(value, <<"{","{","c","w","d","}","}">>, config.cwd)
              ELSE value
        v2 == IF Contains(v1, <<"{","{","s","r","c","-","b","a","s","e","}","}">>)
              THEN Replace(v1, <<"{","{","s","r","c","-","b","a","s","e","}","}">>,
                           config.src_base)
              ELSE v1
    IN  IF Contains(v2, <<"{","{","b","u","i","l","d","-","b","a","s","e","}","}">>)
        THEN Replace(v2, <<"{","{","b","u","i","l","d","-","b","a","s","e","}","}">>,
                     config.build_base)
        ELSE v2

\* A mutant of parse_name_directive: a `-<tag>` suffix is accepted as well.
parse_name_directive_with_suffix(line, directive) ==
    /\ StartsWith(line, directive)
    /\ \/ Len(line) = Len(directive)
       \/ line[Len(directive) + 1] \in {" ", ":", "-"}

parse_name_directive(line, directive) ==
    /\ StartsWith(line, directive)
    /\ \/ Len(line) = Len(directive)
       \/ line[Len(directive) + 1] \in {" ", ":"}

\* Option<String>
\* A mutant of parse_name_value_directive: the value keeps the colon.
parse_name_value_directive_keeps_colon(line, directive, config) ==
    LET colon == Len(directive)
    IN  IF StartsWith(line, directive) /\ Len(line) > colon /\ line[colon + 1] = ":"
        THEN Some(expand_variables(SliceFrom(line, colon + 1), config))
        ELSE None

parse_name_value_directive(line, directive, config) ==
    LET colon == Len(directive)
    IN  IF StartsWith(line, directive) /\ Len(line) > colon /\ line[colon + 1] = ":"
        THEN Some(expand_variables(SliceFrom(line, colon + 2), config))
        ELSE None

\* util.rs is not part of the sources at hand: the tag match of a
\* config-specific directive follows the description of the directive parser.
util_os(target) ==
    LET triple == SplitChars(target, {"-"})
        has(t) == \E i \in 1..Len(triple) : triple[i] = t
    IN  IF has(<<"a","n","d","r","o","i","d">>) \/ has(<<"a","n","d","r","o","i","d","e","a","b","i">>)
        THEN <<"a","n","d","r","o","i","d">>
        ELSE IF has(<<"l","i","n","u","x">>) THEN <<"l","i","n","u","x">>
        ELSE IF has(<<"w","i","n","d","o","w","s">>) THEN <<"w","i","n","d","o","w","s">>
        ELSE <<>>

util_get_arch(target) == SplitChars(target, {"-"})[1]

util_get_pointer_width(target) ==
    IF Contains(target, <<"6","4">>) THEN <<"6","4","b","i","t">> ELSE <<"3","2","b","i","t">>

util_get_env(target) ==
    LET triple == SplitChars(target, {"-"})
    IN  IF Len(triple) >= 4 THEN Some(triple[4]) ELSE None

parse_cfg_name_directive(line, prefix, config) ==
    IF StartsWith(line, prefix) /\ Len(line) > Len(prefix) /\ line[Len(prefix) + 1] = "-"
    THEN LET name == SplitChars(SliceFrom(line, Len(prefix) + 2), {":", " "})[1]
         IN  \/ name = <<"t","e","s","t">>
             \/ name = util_os(config.target)
             \/ name = util_get_arch(config.target)
             \/ name = util_get_pointer_width(config.target)
             \/ name = SplitChars(config.stage_id, {"-"})[1]
             \/ Some(name) = util_get_env(config.target)
             \/ (config.target # config.host
                 /\ name = <<"c","r","o","s","s","-","c","o","m","p","i","l","e">>)
    ELSE FALSE

\* Option<(String, String)>
parse_env(line, name, config) ==
    LET nv == parse_name_value_directive(line, name, config)
    IN  IF nv = None THEN None
        ELSE LET eq == Find(nv[1], <<"=">>)
             IN  IF eq = 0 THEN Some(<<nv[1], <<>>>>)
                 ELSE Some(<<SubSeq(nv[1], 1, eq - 1), SliceFrom(nv[1], eq + 1)>>)

\* The next quoted string of `line` and the rest of the line after it.
parse_normalization_string(line) ==
    LET q1    == Find(line, <<"\"">>)
        begin == q1 + 1
        q2    == Find(SliceFrom(line, begin), <<"\"">>)
        end   == q2 + begin - 1
    IN  IF q1 = 0 \/ q2 = 0
        THEN [ok |-> FALSE, result |-> <<>>, rest |-> line]
        ELSE [ok |-> TRUE, result |-> SubSeq(line, begin, end - 1),
              rest |-> SliceFrom(line, end + 1)]

\* A mutant of parse_custom_normalization: the tag is not matched against the
\* configuration.
parse_custom_normalization_any_tag(line, prefix, config) ==
    IF StartsWith(line, prefix \o <<"-">>)
    THEN LET from == parse_normalization_string(line)
             to   == parse_normalization_string(from.rest)
         IN  IF from.ok /\ to.ok THEN Some(<<from.result, to.result>>) ELSE None
    ELSE None

\* Option<(String, String)>
parse_custom_normalization(line, prefix, config) ==
    IF parse_cfg_name_directive(line, prefix, config)
    THEN LET from == parse_normalization_string(line)
             to   == parse_normalization_string(from.rest)
         IN  IF from.ok /\ to.ok THEN Some(<<from.result, to.result>>) ELSE None
    ELSE None

OptPush(list, opt) == IF opt # None THEN Append(list, opt[1]) ELSE list

\* The callback load_from hands to iter_header, applied to one directive.
load_from_line(props, ln, config) ==
    [props EXCEPT
       !.error_patterns =
           OptPush(@, parse_name_value_directive(ln, <<"e","r","r","o","r","-","p","a","t","t","e","r","n">>, config)),
       !.compile_flags =
           LET flags == parse_name_value_directive(ln, <<"c","o","m","p","i","l","e","-","f","l","a","g","s">>, config)
           IN  IF flags # None THEN @ \o SplitWhitespace(flags[1]) ELSE @,
       !.revisions =
           LET r == parse_name_value_directive(ln, <<"r","e","v","i","s","i","o","n","s">>, config)
           IN  IF r # None THEN @ \o SplitWhitespace(r[1]) ELSE @,
       !.run_flags =
           IF @ = None
           THEN parse_name_value_directive(ln, <<"r","u","n","-","f","l","a","g","s">>, config)
           ELSE @,
       !.build_aux_docs =
           IF ~@ THEN parse_name_directive(ln, <<"b","u","i","l","d","-","a","u","x","-","d","o","c","s">>) ELSE @,
       !.force_host =
           IF ~@ THEN parse_name_directive(ln, <<"f","o","r","c","e","-","h","o","s","t">>) ELSE @,
       !.check_stdout =
           IF ~@ THEN parse_name_directive(ln, <<"c","h","e","c","k","-","s","t","d","o","u","t">>) ELSE @,
       !.no_prefer_dynamic =
           IF ~@ THEN parse_name_directive(ln, <<"n","o","-","p","r","e","f","e","r","-","d","y","n","a","m","i","c">>) ELSE @,
       !.pretty_expanded =
           IF ~@ THEN parse_name_directive(ln, <<"p","r","e","t","t","y","-","e","x","p","a","n","d","e","d">>) ELSE @,
       !.pretty_compare_only =
           IF ~@ THEN parse_name_directive(ln, <<"p","r","e","t","t","y","-","c","o","m","p","a","r","e","-","o","n","l","y">>) ELSE @,
       !.aux_builds =
           OptPush(@, parse_name_value_directive(ln, <<"a","u","x","-","b","u","i","l","d">>, config)),
       !.exec_env =
           OptPush(@, parse_env(ln, <<"e","x","e","c","-","e","n","v">>, config)),
       !.rustc_env =
           OptPush(@, parse_env(ln, <<"r","u","s","t","c","-","e","n","v">>, config)),
       !.check_lines =
           OptPush(@, parse_name_value_directive(ln, <<"c","h","e","c","k">>, config)),
       !.forbid_output =
           OptPush(@, parse_name_value_directive(ln, <<"f","o","r","b","i","d","-","o","u","t","p","u","t">>, config)),
       !.must_compile_successfully =
           IF ~@ THEN parse_name_directive(ln, <<"m","u","s","t","-","c","o","m","p","i","l","e","-","s","u","c","c","e","s","s","f","u","l","l","y">>) ELSE @,
       !.check_test_line_numbers_match =
           IF ~@ THEN parse_name_directive(ln, <<"c","h","e","c","k","-","t","e","s","t","-","l","i","n","e","-","n","u","m","b","e","r","s","-","m","a","t","c","h">>) ELSE @,
       !.normalize_stdout =
           OptPush(@, parse_custom_normalization(ln, <<"n","o","r","m","a","l","i","z","e","-","s","t","d","o","u","t">>, config)),
       !.normalize_stderr =
           OptPush(@, parse_custom_normalization(ln, <<"n","o","r","m","a","l","i","z","e","-","s","t","d","e","r","r">>, config))]

\* env::var on the ambient environment, a list of (key, value) pairs.
env_var(env, key) ==
    LET hits == {i \in 1..Len(env) : env[i][1] = key}
    IN  IF hits = {} THEN None
        ELSE Some(env[CHOOSE i \in hits : \A j \in hits : i <= j][2])

\* The two reserved variables, appended after the scan when the ambient
\* environment sets them and no exec-env entry has that key.
RECURSIVE load_from_env(_, _, _)
load_from_env(exec_env, keys, env) ==
    IF keys = <<>> THEN exec_env
    ELSE LET key == Head(keys)
             has == \E i \in 1..Len(exec_env) : exec_env[i][1] = key
             val == env_var(env, key)
             nxt == IF val # None /\ ~has
                    THEN Append(exec_env, <<key, val[1]>>)
                    ELSE exec_env
         IN  load_from_env(nxt, Tail(keys), env)

EnvKeys ==
    << <<"R","U","S","T","_","T","E","S","T","_","N","O","C","A","P","T","U","R","E">>,
       <<"R","U","S","T","_","T","E","S","T","_","T","H","R","E","A","D","S">> >>

\* iter_header with the callback of load_from, as a fold over the lines
\* from line i on: [panic, props].
RECURSIVE load_from_scan(_, _, _, _, _)
load_from_scan(lines, i, cfg, config, props) ==
    IF i > Len(lines) THEN [panic |-> FALSE, props |-> props]
    ELSE LET r == iter_header_line(lines[i], cfg)
         IN  CASE r.kind = "stop"  -> [panic |-> FALSE, props |-> props]
               [] r.kind = "panic" -> [panic |-> TRUE, props |-> props]
               [] r.kind = "emit"  ->
                    load_from_scan(lines, i + 1, cfg, config,
                                   load_from_line(props, r.text, config))
               [] OTHER -> load_from_scan(lines, i + 1, cfg, config, props)

\* TestProps::from_file: [panic, props].
TestProps_from_file(file, cfg, config, env) ==
    LET scan == IF file.is_dir THEN [panic |-> FALSE, props |-> TestProps_new]
                ELSE load_from_scan(file.lines, 1, cfg, config, TestProps_new)
    IN  IF scan.panic THEN scan
        ELSE [panic |-> FALSE,
              props |-> [scan.props EXCEPT
                           !.exec_env = load_from_env(@, EnvKeys, env)]]


(***************************************************************************)
(* The scan of one file, step by step (one action per loop iteration).     *)
(***************************************************************************)
HeaderLinePool ==
    {<<"/","/"," ","r","e","v","i","s","i","o","n","s",":"," ","a"," ","b">>,
     <<"/","/","[","a","]"," ","c","o","m","p","i","l","e","-","f","l","a","g","s",":"," ","-","O">>,
     <<"/","/","[","b","]"," ","c","o","m","p","i","l","e","-","f","l","a","g","s",":"," ","-","g">>,
     <<" "," ","/","/","[","a","]","m","u","s","t","-","c","o","m","p","i","l","e","-","s","u","c","c","e","s","s","f","u","l","l","y">>,
     <<"/","/"," ","c","h","e","c","k","-","s","t","d","o","u","t">>,
     <<"f","n"," ","m","a","i","n","(",")"," ","{","}">>,
     <<"/","/","[","b">>,
     <<"l","e","t"," ","x"," ","="," ","1",";">>,
     <<"/","/"," ","r","u","n","-","f","l","a","g","s",":","x">>,
     <<"/","/"," ","r","u","n","-","f","l","a","g","s",":","y">>}

RevisionPool == {None, Some(<<"a">>), Some(<<"b">>)}

HostConfig ==
    [target     |-> <<"x","8","6","_","6","4","-","u","n","k","n","o","w","n","-","l","i","n","u","x","-","g","n","u">>,
     host       |-> <<"x","8","6","_","6","4","-","u","n","k","n","o","w","n","-","l","i","n","u","x","-","g","n","u">>,
     stage_id   |-> <<"s","t","a","g","e","1","-","x","8","6","_","6","4","-","u","n","k","n","o","w","n","-","l","i","n","u","x","-","g","n","u">>,
     cwd        |-> <<"/","w">>,
     src_base   |-> <<"/","s">>,
     build_base |-> <<"/","b">>]

EnvPool == {<<>>, << <<EnvKeys[2], <<"1">>>> >>}

HeaderFiles ==
    {[is_dir |-> TRUE, lines |-> <<>>]}
    \cup {[is_dir |-> FALSE, lines |-> ls] : ls \in SeqsUpTo(HeaderLinePool, MaxHeaderLines)}

HeaderInit ==
    /\ h_file \in HeaderFiles
    /\ h_cfg \in RevisionPool
    /\ h_config = HostConfig
    /\ h_env \in EnvPool
    /\ h_i = 0
    /\ h_emitted = <<>>
    /\ h_props = TestProps_new
    /\ h_pc = "scan"

HeaderIdle ==
    /\ h_file = [is_dir |-> TRUE, lines |-> <<>>]
    /\ h_cfg = None
    /\ h_config = HostConfig
    /\ h_env = <<>>
    /\ h_i = 0
    /\ h_emitted = <<>>
    /\ h_props = TestProps_new
    /\ h_pc = "idle"

\* iter_header, one line of the loop, with the callback of load_from.
IterHeaderStep ==
    /\ h_pc = "scan"
    /\ ~h_file.is_dir
    /\ h_i < Len(h_file.lines)
    /\ LET r == iter_header_line(h_file.lines[h_i + 1], h_cfg)
       IN  CASE r.kind = "stop" ->
                  /\ h_pc' = "env"
                  /\ UNCHANGED <<h_i, h_emitted, h_props>>
             [] r.kind = "panic" ->
                  /\ h_pc' = "panic"
                  /\ UNCHANGED <<h_i, h_emitted, h_props>>
             [] r.kind = "emit" ->
                  /\ h_i' = h_i + 1
                  /\ h_emitted' = Append(h_emitted, [idx |-> h_i + 1, text |-> r.text])
                  /\ h_props' = load_from_line(h_props, r.text, h_config)
                  /\ UNCHANGED h_pc
             [] OTHER ->
                  /\ h_i' = h_i + 1
                  /\ UNCHANGED <<h_emitted, h_props, h_pc>>
    /\ UNCHANGED <<h_file, h_cfg, h_config, h_env>>
    /\ UNCHANGED NotHeader

\* iter_header returns: the path is a directory, or the lines are exhausted.
IterHeaderReturn ==
    /\ h_pc = "scan"
    /\ h_file.is_dir \/ h_i = Len(h_file.lines)
    /\ h_pc' = "env"
    /\ UNCHANGED <<h_file, h_cfg, h_config, h_env, h_i, h_emitted, h_props>>
    /\ UNCHANGED NotHeader

\* The tail of load_from: the reserved environment variables.
LoadFromEnv ==
    /\ h_pc = "env"
    /\ h_props' = [h_props EXCEPT !.exec_env = load_from_env(@, EnvKeys, h_env)]
    /\ h_pc' = "done"
    /\ UNCHANGED <<h_file, h_cfg, h_config, h_env, h_i, h_emitted>>
    /\ UNCHANGED NotHeader

HeaderNext == IterHeaderStep \/ IterHeaderReturn \/ LoadFromEnv


(***************************************************************************)
(* Claims about the directive scanner.                                     *)
(***************************************************************************)
TagUniverse == {<<"a">>, <<"b">>}

HeaderEmitted(i) == \E k \in 1..Len(h_emitted) : h_emitted[k].idx = i

HeaderEmittedText(i) ==
    h_emitted[CHOOSE k \in 1..Len(h_emitted) : h_emitted[k].idx = i].text

TaggedPrefix(T) == <<"/","/","[">> \o T \o <<"]">>

\* C2: of the lines the scanner has visited, a line `//[T] body` has passed
\* `body` to the parser iff the scan was called with the revision T, and a
\* line `// body` has passed `body` whatever the revision (none included).
C2_RevisionFilter ==
    \A i \in 1..h_i :
        LET ln == Trim(h_file.lines[i])
        IN  /\ \A T \in TagUniverse :
                 StartsWith(ln, TaggedPrefix(T)) =>
                    /\ HeaderEmitted(i) <=> h_cfg = Some(T)
                    /\ HeaderEmitted(i) =>
                         HeaderEmittedText(i)
                            = TrimLeft(SliceFrom(ln, Len(TaggedPrefix(T)) + 1))
            /\ (StartsWith(ln, <<"/","/">>) /\ ~StartsWith(ln, <<"/","/","[">>)) =>
                    /\ HeaderEmitted(i)
                    /\ HeaderEmittedText(i) = TrimLeft(SliceFrom(ln, 3))

C2_Witness ==
    /\ h_pc = "done"
    /\ h_cfg = Some(<<"a">>)
    /\ h_i = 3
    /\ \E i, j, k \in 1..h_i :
          /\ StartsWith(Trim(h_file.lines[i]), TaggedPrefix(<<"a">>)) /\ HeaderEmitted(i)
          /\ StartsWith(Trim(h_file.lines[j]), TaggedPrefix(<<"b">>)) /\ ~HeaderEmitted(j)
          /\ StartsWith(Trim(h_file.lines[k]), <<"/","/"," ">>) /\ HeaderEmitted(k)


\* The lines are directive lines: comments, none of them malformed.
DirectiveLines(lines) ==
    \A i \in DOMAIN lines :
        /\ lines[i] # <<>>
        /\ SubSeq(TrimLeft(lines[i]), 1, 2) = <<"/","/">>
        /\ SubSeq(TrimLeft(lines[i]), 1, 3) = <<"/","/","[">> =>
              \E k \in DOMAIN lines[i] : lines[i][k] = "]"

\* Two lists hold the same elements, each as many times.
SameElements(a, b) ==
    /\ Len(a) = Len(b)
    /\ \A i \in DOMAIN a :
          Cardinality({j \in DOMAIN a : a[j] = a[i]})
              = Cardinality({j \in DOMAIN b : b[j] = a[i]})

BooleanFields ==
    {"build_aux_docs", "force_host", "check_stdout", "no_prefer_dynamic",
     "pretty_expanded", "pretty_compare_only", "must_compile_successfully",
     "check_test_line_numbers_match"}

ListFields ==
    {"error_patterns", "compile_flags", "aux_builds", "revisions", "rustc_env",
     "exec_env", "check_lines", "forbid_output", "normalize_stdout",
     "normalize_stderr"}

\* C19 as stated: the properties parsed from any permutation of a file of directive
\* lines have the same boolean flags and the same run_flags as those parsed
\* from the file, and list fields with the same elements.
C19_PermutationInvariant ==
    (h_pc = "done" /\ ~h_file.is_dir /\ DirectiveLines(h_file.lines)) =>
        \A p \in Permutations(DOMAIN h_file.lines) :
            \E q \in {TestProps_from_file(
                         [is_dir |-> FALSE,
                          lines |-> [i \in DOMAIN h_file.lines |-> h_file.lines[p[i]]]],
                         h_cfg, h_config, h_env)} :
                /\ ~q.panic
                /\ \A f \in BooleanFields : q.props[f] = h_props[f]
                /\ q.props.run_flags = h_props.run_flags
                /\ \A f \in ListFields : SameElements(q.props[f], h_props[f])

\* The values of the run-flags directives the callback has seen, in order.
RunFlagsSeen ==
    LET key == <<"r","u","n","-","f","l","a","g","s",":">>
        hits == {k \in DOMAIN h_emitted : SubSeq(h_emitted[k].text, 1, Len(key)) = key}
        value(k) == SubSeq(h_emitted[k].text, Len(key) + 1, Len(h_emitted[k].text))
    IN  [first |-> IF hits = {} THEN <<>>
                   ELSE <<value(CHOOSE k \in hits : \A j \in hits : k <= j)>>,
         all |-> {<<value(k)>> : k \in hits}]

\* C19, amended: the properties parsed from any permutation of a file of
\* directive lines have the same boolean flags and list fields with the same
\* elements; run_flags is the value of the first run-flags directive of the
\* file as it stands, so a permutation gives one of the values the
\* directives hold, the same one when they hold a single value; and within
\* one parse a boolean flag that is true stays true.
C19_PermutationInvariantButRunFlags ==
    /\ []((h_pc = "done" /\ ~h_file.is_dir /\ DirectiveLines(h_file.lines)) =>
                /\ h_props.run_flags = RunFlagsSeen.first
                /\ \A p \in Permutations(DOMAIN h_file.lines) :
                      \E q \in {TestProps_from_file(
                                   [is_dir |-> FALSE,
                                    lines |-> [i \in DOMAIN h_file.lines |->
                                                  h_file.lines[p[i]]]],
                                   h_cfg, h_config, h_env)} :
                          /\ ~q.panic
                          /\ \A f \in BooleanFields : q.props[f] = h_props[f]
                          /\ \A l \in ListFields : SameElements(q.props[l], h_props[l])
                          /\ RunFlagsSeen.all = {} => q.props.run_flags = <<>>
                          /\ RunFlagsSeen.all # {} => q.props.run_flags \in RunFlagsSeen.all)
    /\ [][\A f \in BooleanFields : h_props[f] => h_props'[f]]_vars

C19_Witness ==
    /\ h_pc = "done"
    /\ DirectiveLines(h_file.lines)
    /\ Len(h_file.lines) = 3
    /\ RunFlagsSeen.all = {<<<<"x">>>>, <<<<"y">>>>}
    /\ h_props.run_flags = <<<<"x">>>>
    /\ h_props.check_stdout

(***************************************************************************)
(* runtest.rs: the expected-error matcher, TestCx::check_expected_errors.  *)
(* An error is [line_num, kind, msg], kind an Option of "Help", "Error",   *)
(* "Note", "Suggestion", "Warning".                                        *)
(***************************************************************************)
Err(l, k, m) == [line_num |-> l, kind |-> k, msg |-> m]

any_kind(errors, k) == \E i \in 1..Len(errors) : errors[i].kind = Some(k)

\* A mutant of status_precheck: the exit status is not looked at.
status_precheck_dropped(success, expected_errors) == FALSE

\* The first statement of check_expected_errors: a successful exit with an
\* expected Error is fatal.
status_precheck(success, expected_errors) ==
    success /\ any_kind(expected_errors, "Error")

\* A mutant of error_matches: an expected entry may be matched again.
error_matches_found_again(found, index, actual_error, expected_error) ==
    /\ actual_error.line_num = expected_error.line_num
    /\ (expected_error.kind = None \/ actual_error.kind = expected_error.kind)
    /\ Contains(actual_error.msg, expected_error.msg)

\* The predicate handed to `position`.
error_matches(found, index, actual_error, expected_error) ==
    /\ ~found[index]
    /\ actual_error.line_num = expected_error.line_num
    /\ (expected_error.kind = None \/ actual_error.kind = expected_error.kind)
    /\ Contains(actual_error.msg, expected_error.msg)

\* Iterator::position from `index` on: the first index whose entry
\* satisfies the predicate, 0 for None.
RECURSIVE position(_, _, _, _)
position(expected_errors, found, actual_error, index) ==
    IF index > Len(expected_errors) THEN 0
    ELSE IF error_matches(found, index, actual_error, expected_errors[index])
         THEN index
         ELSE position(expected_errors, found, actual_error, index + 1)

\* A mutant of is_unexpected_compiler_message: helps and notes are always
\* reported.
is_unexpected_always_help_note(actual_error, expect_help, expect_note) ==
    actual_error.kind \in {Some("Help"), Some("Note"), Some("Error"), Some("Warning")}

is_unexpected_compiler_message(actual_error, expect_help, expect_note) ==
    CASE actual_error.kind = Some("Help") -> expect_help
      [] actual_error.kind = Some("Note") -> expect_note
      [] actual_error.kind \in {Some("Error"), Some("Warning")} -> TRUE
      [] OTHER -> FALSE

\* The body of the loop over actual_errors, for the j-th actual error, on
\* the loop state st = [found, unexpected, pairs].
match_actual(expected_errors, st, actual_error, j) ==
    LET opt_index == position(expected_errors, st.found, actual_error, 1)
    IN  IF opt_index # 0
        THEN [st EXCEPT !.found[opt_index] = TRUE,
                        !.pairs = Append(@, [a |-> j, e |-> opt_index])]
        ELSE IF is_unexpected_compiler_message(actual_error,
                    any_kind(expected_errors, "Help"),
                    any_kind(expected_errors, "Note"))
             THEN [st EXCEPT !.unexpected = Append(@, j)]
             ELSE st

\* The loop that collects not_found, from `index` on.
RECURSIVE collect_not_found(_, _)
collect_not_found(found, index) ==
    IF index > Len(found) THEN <<>>
    ELSE IF ~found[index]
         THEN <<index>> \o collect_not_found(found, index + 1)
         ELSE collect_not_found(found, index + 1)

RECURSIVE match_loop(_, _, _, _)
match_loop(expected_errors, actual_errors, j, st) ==
    IF j > Len(actual_errors) THEN st
    ELSE match_loop(expected_errors, actual_errors, j + 1,
                    match_actual(expected_errors, st, actual_errors[j], j))

match_start(expected_errors) ==
    [found |-> [i \in 1..Len(expected_errors) |-> FALSE],
     unexpected |-> <<>>, pairs |-> <<>>]

\* check_expected_errors as a whole: [panic, fatal, unexpected, not_found].
check_expected_errors(expected_errors, actual_errors, success) ==
    IF status_precheck(success, expected_errors)
    THEN [panic |-> TRUE, fatal |-> "process did not return an error status",
          unexpected |-> <<>>, not_found |-> <<>>]
    ELSE LET st == match_loop(expected_errors, actual_errors, 1,
                              match_start(expected_errors))
             nf == collect_not_found(st.found, 1)
         IN  [panic |-> st.unexpected # <<>> \/ nf # <<>>,
              fatal |-> IF st.unexpected # <<>> \/ nf # <<>>
                        THEN "unexpected errors found, expected errors not found"
                        ELSE "",
              unexpected |-> st.unexpected, not_found |-> nf]

ExpectedPool ==
    {Err(1, Some("Error"), <<"a">>), Err(1, Some("Error"), <<"a","b">>),
     Err(1, None, <<"a">>), Err(2, Some("Error"), <<"a">>),
     Err(1, Some("Help"), <<"a">>), Err(1, Some("Note"), <<"a">>)}

ActualPool ==
    {Err(1, Some("Error"), <<"a">>), Err(1, Some("Error"), <<"a","b">>),
     Err(1, Some("Warning"), <<"a">>), Err(1, Some("Help"), <<"a">>),
     Err(1, Some("Note"), <<"a">>), Err(1, Some("Suggestion"), <<"a">>),
     Err(1, None, <<"a">>)}

MatchInit ==
    /\ m_success \in BOOLEAN
    /\ m_expected \in SeqsUpTo(ExpectedPool, MaxExpected)
    /\ m_actual \in SeqsUpTo(ActualPool, MaxActual)
    /\ m_found = <<>>
    /\ m_unexpected = <<>>
    /\ m_not_found = <<>>
    /\ m_j = 0
    /\ m_pairs = <<>>
    /\ m_fatal = ""
    /\ m_pc = "entry"

MatchIdle ==
    /\ m_success = FALSE
    /\ m_expected = <<>>
    /\ m_actual = <<>>
    /\ m_found = <<>>
    /\ m_unexpected = <<>>
    /\ m_not_found = <<>>
    /\ m_j = 0
    /\ m_pairs = <<>>
    /\ m_fatal = ""
    /\ m_pc = "idle"

\* Lines 426-445: the status precheck, then `found` is allocated.
MatchEntry ==
    /\ m_pc = "entry"
    /\ IF status_precheck(m_success, m_expected)
       THEN /\ m_pc' = "panic"
            /\ m_fatal' = "process did not return an error status"
            /\ UNCHANGED m_found
       ELSE /\ m_pc' = "loop"
            /\ m_found' = match_start(m_expected).found
            /\ UNCHANGED m_fatal
    /\ UNCHANGED <<m_success, m_expected, m_actual, m_unexpected, m_not_found,
                   m_j, m_pairs>>
    /\ UNCHANGED NotMatch

\* Lines 446-480: one iteration of the loop over actual_errors.
MatchActual ==
    /\ m_pc = "loop"
    /\ m_j < Len(m_actual)
    /\ LET st == match_actual(m_expected,
                     [found |-> m_found, unexpected |-> m_unexpected,
                      pairs |-> m_pairs],
                     m_actual[m_j + 1], m_j + 1)
       IN  /\ m_found' = st.found
           /\ m_unexpected' = st.unexpected
           /\ m_pairs' = st.pairs
    /\ m_j' = m_j + 1
    /\ UNCHANGED <<m_success, m_expected, m_actual, m_not_found, m_fatal, m_pc>>
    /\ UNCHANGED NotMatch

\* Lines 482-496: the expected entries not yet found are collected.
MatchNotFound ==
    /\ m_pc = "loop"
    /\ m_j = Len(m_actual)
    /\ m_not_found' = collect_not_found(m_found, 1)
    /\ m_pc' = "verdict"
    /\ UNCHANGED <<m_success, m_expected, m_actual, m_found, m_unexpected,
                   m_j, m_pairs, m_fatal>>
    /\ UNCHANGED NotMatch

\* Lines 498-511: the verdict.
MatchVerdict ==
    /\ m_pc = "verdict"
    /\ IF m_unexpected # <<>> \/ m_not_found # <<>>
       THEN /\ m_pc' = "panic"
            /\ m_fatal' = "unexpected errors found, expected errors not found"
       ELSE /\ m_pc' = "returned"
            /\ UNCHANGED m_fatal
    /\ UNCHANGED <<m_success, m_expected, m_actual, m_found, m_unexpected,
                   m_not_found, m_j, m_pairs>>
    /\ UNCHANGED NotMatch

MatchNext == MatchEntry \/ MatchActual \/ MatchNotFound \/ MatchVerdict

(***************************************************************************)
(* Claims about the expected-error matcher.                                *)
(***************************************************************************)
PairsOf(j) == {i \in DOMAIN m_pairs : m_pairs[i].a = j}

MatchedBefore(j) == {m_pairs[i].e : i \in {n \in DOMAIN m_pairs : m_pairs[n].a < j}}

MatchedExpected == {m_pairs[i].e : i \in DOMAIN m_pairs}

IsSubstring(needle, hay) ==
    \E i \in 1..(Len(hay) - Len(needle) + 1) :
        \A n \in 1..Len(needle) : hay[i + n - 1] = needle[n]

Compatible(a, e) ==
    /\ a.line_num = e.line_num
    /\ e.kind = None \/ e.kind = a.kind
    /\ IsSubstring(e.msg, a.msg)

\* The expected entries actual j could have been paired with when its turn
\* came.
Candidates(j) ==
    {k \in DOMAIN m_expected :
        k \notin MatchedBefore(j) /\ Compatible(m_actual[j], m_expected[k])}

VerdictReached ==
    \/ m_pc \in {"verdict", "returned"}
    \/ m_pc = "panic" /\ m_fatal # "process did not return an error status"

\* C3: every actual diagnostic processed so far, in output order, is paired
\* with the lowest-indexed expected entry that was still unmatched and has
\* the same line, a compatible kind and a message contained in the actual
\* message (and with none when there is no such entry); no expected entry is
\* paired with two actual diagnostics; the entries reported missing are
\* exactly the expected entries left unpaired.
C3_GreedyMatching ==
    /\ \A j \in 1..m_j :
          IF Candidates(j) = {}
          THEN PairsOf(j) = {}
          ELSE /\ Cardinality(PairsOf(j)) = 1
               /\ \A i \in PairsOf(j) :
                     /\ m_pairs[i].e \in Candidates(j)
                     /\ \A k \in Candidates(j) : m_pairs[i].e <= k
    /\ \A i1, i2 \in DOMAIN m_pairs :
          i1 # i2 => m_pairs[i1].e # m_pairs[i2].e
    /\ \A k \in DOMAIN m_found : m_found[k] <=> k \in MatchedExpected
    /\ VerdictReached =>
          /\ {m_not_found[i] : i \in DOMAIN m_not_found}
                = DOMAIN m_expected \ MatchedExpected
          /\ Len(m_not_found) = Cardinality(DOMAIN m_expected \ MatchedExpected)

C3_Witness ==
    /\ m_pc = "panic"
    /\ m_j = 2
    /\ Cardinality(Candidates(1)) = 2
    /\ m_pairs = <<[a |-> 1, e |-> 1]>>
    /\ m_not_found = <<2>>

ExpectsKind(k) == \E i \in DOMAIN m_expected : m_expected[i].kind = <<k>>

Reportable(a) ==
    \/ a.kind \in {<<"Error">>, <<"Warning">>}
    \/ a.kind = <<"Help">> /\ ExpectsKind("Help")
    \/ a.kind = <<"Note">> /\ ExpectsKind("Note")

ReportedUnexpected == {m_unexpected[i] : i \in DOMAIN m_unexpected}

MatchTerminated == m_pc \in {"returned", "panic"}

\* What the matching loop yields on the inputs, whether or not it is run.
MatchingOfInputs ==
    match_loop(m_expected, m_actual, 1, match_start(m_expected))

\* C4 (as amended): a processed actual diagnostic is reported unexpected iff
\* it matched no expected entry and its kind is Error or Warning, or Help
\* (Note) while the test expects some Help (Note); Suggestion and kind-less
\* diagnostics are never reported.  The check fails iff a diagnostic is
\* unexpected, or an expected entry is missing, or the compile exited with
\* success while an expected entry has kind Error.
C4_UnexpectedReporting ==
    /\ \A j \in 1..m_j :
          j \in ReportedUnexpected <=> (PairsOf(j) = {} /\ Reportable(m_actual[j]))
    /\ MatchTerminated =>
          (m_pc = "panic" <=>
              \/ m_unexpected # <<>>
              \/ m_not_found # <<>>
              \/ m_success /\ ExpectsKind("Error"))

C4_Witness ==
    /\ m_pc = "panic"
    /\ m_j = 2
    /\ m_unexpected = <<1>>
    /\ m_actual[1].kind = <<"Warning">>
    /\ m_actual[2].kind = <<"Help">>
    /\ PairsOf(2) = {}
    /\ ~ExpectsKind("Help")

\* C4 as first stated: the check fails iff at least one diagnostic is
\* unexpected or at least one expected entry is missing.
C4_FailsIffUnexpectedOrMissing ==
    MatchTerminated =>
        (m_pc = "panic" <=>
            \/ MatchingOfInputs.unexpected # <<>>
            \/ \E k \in DOMAIN m_expected : ~MatchingOfInputs.found[k])

\* C7: when the compile exited with success and an expected entry has kind
\* Error, the check never gets to the matching and ends in a fatal error.
C7_SuccessWithExpectedError ==
    (m_success /\ ExpectsKind("Error")) =>
        /\ m_pc \in {"entry", "panic"}
        /\ m_pc = "panic" => m_fatal = "process did not return an error status"

\* The check has failed although the matching of the inputs leaves nothing
\* missing and nothing unexpected.
C7_Witness ==
    /\ m_pc = "panic"
    /\ m_success
    /\ ExpectsKind("Error")
    /\ m_actual # <<>>
    /\ MatchingOfInputs.unexpected = <<>>
    /\ \A k \in DOMAIN m_expected : MatchingOfInputs.found[k]

(***************************************************************************)
(* runtest.rs: the checks of one revision, as functions of the child       *)
(* processes' results.  A check yields None when it passes and Some of the *)
(* message of its fatal error when it fails.                               *)
(***************************************************************************)
ProcRes(status, stdout, stderr) ==
    [status |-> status, stdout |-> stdout, stderr |-> stderr]

\* ExitStatus::success; a status is its exit code, None when the child was
\* ended by a signal.
success(status) == status = Some(0)

RUST_ERR == 101

VALGRIND_ERR == 100

\* A mutant of get_output: stderr alone, whatever check_stdout says.
get_output_stderr_only(props, proc_res) == proc_res.stderr

get_output(props, proc_res) ==
    IF props.check_stdout
    THEN proc_res.stdout \o proc_res.stderr
    ELSE proc_res.stderr

\* A mutant of check_correct_failure_status: any unsuccessful exit passes.
check_correct_failure_status_any_failure(proc_res) ==
    IF ~success(proc_res.status)
    THEN None ELSE Some("failure produced the wrong error")

check_correct_failure_status(proc_res) ==
    IF proc_res.status # Some(RUST_ERR)
    THEN Some("failure produced the wrong error")
    ELSE None

\* A mutant of error_patterns_scan: a line may serve several patterns.
RECURSIVE error_patterns_scan_same_line(_, _, _, _)
error_patterns_scan_same_line(error_patterns, lines, li, next_err_idx) ==
    IF li > Len(lines) THEN next_err_idx
    ELSE IF Contains(lines[li], Trim(error_patterns[next_err_idx + 1]))
         THEN IF next_err_idx + 1 = Len(error_patterns)
              THEN next_err_idx + 1
              ELSE error_patterns_scan_same_line(error_patterns, lines, li, next_err_idx + 1)
         ELSE error_patterns_scan_same_line(error_patterns, lines, li + 1, next_err_idx)

\* The loop of check_error_patterns over the output's lines from line li on:
\* the value of next_err_idx when the loop ends.
RECURSIVE error_patterns_scan(_, _, _, _)
error_patterns_scan(error_patterns, lines, li, next_err_idx) ==
    IF li > Len(lines) THEN next_err_idx
    ELSE IF Contains(lines[li], Trim(error_patterns[next_err_idx + 1]))
         THEN IF next_err_idx + 1 = Len(error_patterns)
              THEN next_err_idx + 1
              ELSE error_patterns_scan(error_patterns, lines, li + 1, next_err_idx + 1)
         ELSE error_patterns_scan(error_patterns, lines, li + 1, next_err_idx)

\* A mutant of check_error_patterns: an empty pattern list always passes.
check_error_patterns_empty_passes(props, output_to_check) ==
    IF props.error_patterns = <<>> THEN None
    ELSE IF error_patterns_scan(props.error_patterns, Lines(output_to_check), 1, 0)
              = Len(props.error_patterns)
         THEN None ELSE Some("error pattern not found!")

check_error_patterns(props, output_to_check) ==
    IF props.error_patterns = <<>>
    THEN IF props.must_compile_successfully
         THEN None
         ELSE Some("no error pattern specified")
    ELSE LET next_err_idx ==
                 error_patterns_scan(props.error_patterns, Lines(output_to_check), 1, 0)
         IN  IF next_err_idx = Len(props.error_patterns) THEN None
             ELSE IF Len(props.error_patterns) - next_err_idx = 1
                  THEN Some("error pattern not found!")
                  ELSE Some("multiple error patterns not found")

\* check_error_patterns, lines 392-401: the patterns reported not found.
missing_patterns(props, output_to_check) ==
    LET next_err_idx ==
            error_patterns_scan(props.error_patterns, Lines(output_to_check), 1, 0)
    IN  SubSeq(props.error_patterns, next_err_idx + 1, Len(props.error_patterns))

InternalCompilerError == <<"e","r","r","o","r",":"," ","i","n","t","e","r","n","a","l"," ","c","o","m","p","i","l","e","r"," ","e","r","r","o","r">>

check_no_compiler_crash(proc_res) ==
    IF \E i \in DOMAIN Lines(proc_res.stderr) :
          Contains(Lines(proc_res.stderr)[i], InternalCompilerError)
    THEN Some("compiler encountered internal error")
    ELSE None

check_forbid_output(props, output_to_check) ==
    IF \E i \in DOMAIN props.forbid_output :
          Contains(output_to_check, props.forbid_output[i])
    THEN Some("forbidden pattern found in compiler output")
    ELSE None

\* The checks of a function body in order, each [name, result]: the checks
\* made up to the first that fails, and its fatal error.
RECURSIVE first_fatal(_, _)
first_fatal(steps, done) ==
    IF steps = <<>> THEN [checks |-> done, fatal |-> None]
    ELSE IF Head(steps).result # None
         THEN [checks |-> Append(done, Head(steps).name), fatal |-> Head(steps).result]
         ELSE first_fatal(Tail(steps), Append(done, Head(steps).name))

\* run_cfail_test, lines 123-137.
cfail_status(props, proc_res) ==
    IF props.must_compile_successfully
    THEN IF ~success(proc_res.status)
         THEN Some("test compilation failed although it shouldn't!")
         ELSE None
    ELSE IF success(proc_res.status)
         THEN Some("test compiled successfully!")
         ELSE check_correct_failure_status(proc_res)

\* run_cfail_test, lines 141-148: [name, result].
cfail_errors(props, proc_res, expected_errors, actual_errors) ==
    IF expected_errors # <<>>
    THEN IF props.error_patterns # <<>>
         THEN [name |-> "both",
               result |-> Some("both error pattern and expected errors specified")]
         ELSE LET r == check_expected_errors(expected_errors, actual_errors,
                                             success(proc_res.status))
              IN  [name |-> "check_expected_errors",
                   result |-> IF r.panic THEN Some(r.fatal) ELSE None]
    ELSE [name |-> "check_error_patterns",
          result |-> check_error_patterns(props, get_output(props, proc_res))]

\* run_cfail_test after compile_test has returned proc_res.
run_cfail_test(props, proc_res, expected_errors, actual_errors) ==
    first_fatal(
        << [name |-> "status", result |-> cfail_status(props, proc_res)],
           cfail_errors(props, proc_res, expected_errors, actual_errors),
           [name |-> "check_no_compiler_crash", result |-> check_no_compiler_crash(proc_res)],
           [name |-> "check_forbid_output",
            result |-> check_forbid_output(props, get_output(props, proc_res))] >>,
        <<>>)

\* A mutant of rfail_valgrind: exit code 100 is not looked for.
rfail_valgrind_unchecked(proc_res) == None

\* run_rfail_test, lines 165-167.
rfail_valgrind(proc_res) ==
    IF proc_res.status = Some(VALGRIND_ERR)
    THEN Some("run-fail test isn't valgrind-clean!")
    ELSE None

\* run_rfail_test after exec_compiled_test has returned proc_res.
run_rfail_test(props, proc_res) ==
    first_fatal(
        << [name |-> "valgrind", result |-> rfail_valgrind(proc_res)],
           [name |-> "status", result |-> check_correct_failure_status(proc_res)],
           [name |-> "check_error_patterns",
            result |-> check_error_patterns(props, get_output(props, proc_res))] >>,
        <<>>)

\* A mutant of rpass_expected_errors: the assertion is dropped.
rpass_expected_errors_allowed(expected_errors) == None

\* run_rpass_test, lines 201-203.
rpass_expected_errors(expected_errors) ==
    IF expected_errors # <<>>
    THEN Some("run-pass tests with expected warnings should be moved to ui/")
    ELSE None

\* testpaths.file.parent() of the test under run.
TestDir == <<"/","s">>

\* A mutant of apply_rules: the rules are applied last first.
RECURSIVE apply_rules_last_first(_, _)
apply_rules_last_first(s, rules) ==
    IF rules = <<>> THEN s
    ELSE apply_rules_last_first(
             Replace(s, rules[Len(rules)][1], rules[Len(rules)][2]),
             SubSeq(rules, 1, Len(rules) - 1))

RECURSIVE apply_rules(_, _)
apply_rules(s, rules) ==
    IF rules = <<>> THEN s
    ELSE apply_rules(Replace(s, rules[1][1], rules[1][2]), Tail(rules))

normalize_output(parent_dir, compile_flags, output, custom_rules) ==
    LET cflags == Join(compile_flags, <<" ">>)
        json == \/ Contains(cflags, <<"-","-","e","r","r","o","r","-","f","o","r","m","a","t"," ","j","s","o","n">>)
                \/ Contains(cflags, <<"-","-","e","r","r","o","r","-","f","o","r","m","a","t"," ","p","r","e","t","t","y","-","j","s","o","n">>)
        parent_dir_str == IF json THEN Replace(parent_dir, <<"\\">>, <<"\\","\\">>)
                          ELSE parent_dir
        n1 == Replace(output, parent_dir_str, <<"$","D","I","R">>)
        n2 == IF json THEN Replace(n1, <<"\\","n">>, <<"\n">>) ELSE n1
        n3 == Replace(n2, <<"\\","\\">>, <<"\\">>)
        n4 == Replace(n3, <<"\\">>, <<"/">>)
        n5 == Replace(n4, <<"\r","\n">>, <<"\n">>)
        n6 == Replace(n5, <<"\t">>, <<"\\","t">>)
    IN  apply_rules(n6, custom_rules)

\* A mutant of compare_output: a difference is not counted.
compare_output_never_differs(actual, expected) == 0

compare_output(actual, expected) == IF actual = expected THEN 0 ELSE 1

\* load_expected_output on a reference file, None when it does not exist.
load_expected_output(file) == IF file = None THEN <<>> ELSE file[1]

\* run_ui_test, lines 1126-1139, after compile_test has returned proc_res:
\* the value of errors.  reference is [stdout, stderr], the reference files.
ui_errors(props, proc_res, reference) ==
    LET expected_stderr == load_expected_output(reference.stderr)
        expected_stdout == load_expected_output(reference.stdout)
        normalized_stdout ==
            normalize_output(TestDir, props.compile_flags, proc_res.stdout,
                             props.normalize_stdout)
        normalized_stderr ==
            normalize_output(TestDir, props.compile_flags, proc_res.stderr,
                             props.normalize_stderr)
    IN  compare_output(normalized_stdout, expected_stdout)
          + compare_output(normalized_stderr, expected_stderr)

\* run_ui_test, lines 1141-1152.
ui_compare(props, proc_res, reference) ==
    LET errors == ui_errors(props, proc_res, reference)
    IN  IF errors > 0
        THEN IF errors = 1 THEN Some("1 errors occurred comparing output.")
             ELSE Some("2 errors occurred comparing output.")
        ELSE None

\* TestProps::from_aux_file: [panic, props].
from_aux_file(testfile, cfg, config, env) == TestProps_from_file(testfile, cfg, config, env)

\* A mutant of crate_type: force_host lifts the fallback on every target.
crate_type_force_host_anywhere(config, aux_props) ==
    IF aux_props.no_prefer_dynamic THEN None
    ELSE IF /\ \/ Contains(config.target, <<"m","u","s","l">>)
               \/ Contains(config.target, <<"w","a","s","m","3","2">>)
               \/ Contains(config.target, <<"e","m","s","c","r","i","p","t","e","n">>)
            /\ ~aux_props.force_host
         THEN Some("lib")
         ELSE Some("dylib")

\* compose_and_run_compiler, lines 659-676: the --crate-type of an auxiliary.
crate_type(config, aux_props) ==
    IF aux_props.no_prefer_dynamic THEN None
    ELSE IF \/ Contains(config.target, <<"m","u","s","l">>) /\ ~aux_props.force_host
            \/ Contains(config.target, <<"w","a","s","m","3","2">>)
            \/ Contains(config.target, <<"e","m","s","c","r","i","p","t","e","n">>)
         THEN Some("lib")
         ELSE Some("dylib")

\* A mutant of run_plan: the revisions list is ignored.
run_plan_base_only(base_props) == <<None>>

\* run, lines 67-82: the revisions run_revision is called with, in order.
run_plan(base_props) ==
    IF base_props.revisions = <<>> THEN <<None>>
    ELSE [i \in 1..Len(base_props.revisions) |-> Some(base_props.revisions[i])]

\* run, lines 68 and 71-73: the properties run_revision is called with.
revision_props(file, revision, base_props, config, env) ==
    IF revision = None THEN [panic |-> FALSE, props |-> base_props]
    ELSE TestProps_from_file(file, revision, config, env)

(***************************************************************************)
(* runtest::run on one test, one action per child process and one per      *)
(* iteration of the loop over the revisions.  The file system is taken to  *)
(* be reliable; a child process may fail to start.                         *)
(***************************************************************************)
MaxFileLines == 2

AndroidTargets ==
    {<<"a","r","m","-","l","i","n","u","x","-","a","n","d","r","o","i","d","e","a","b","i">>,
     <<"a","r","m","v","7","-","l","i","n","u","x","-","a","n","d","r","o","i","d","e","a","b","i">>,
     <<"a","a","r","c","h","6","4","-","l","i","n","u","x","-","a","n","d","r","o","i","d">>}

Modes == {"CompileFail", "RunFail", "RunPass", "Ui", "RunMake"}

Config(mode, target, adb_device_status) ==
    [mode |-> mode, target |-> target, adb_device_status |-> adb_device_status,
     host |-> HostConfig.host, stage_id |-> HostConfig.stage_id,
     cwd |-> HostConfig.cwd, src_base |-> HostConfig.src_base,
     build_base |-> HostConfig.build_base]

\* Every mode on the host and on an Android target without a device; on an
\* Android target with a device, the one mode that looks at the target.
RunConfigs ==
    {Config(m, HostConfig.target, FALSE) : m \in Modes}
    \cup {Config(m, <<"a","r","m","-","l","i","n","u","x","-","a","n","d","r","o","i","d","e","a","b","i">>, FALSE) : m \in Modes}
    \cup {Config("RunMake", <<"a","r","m","-","l","i","n","u","x","-","a","n","d","r","o","i","d","e","a","b","i">>, TRUE)}

RunLinePool ==
    {<<"/","/"," ","r","e","v","i","s","i","o","n","s",":"," ","a"," ","b">>,
     <<"/","/","[","a","]"," ","m","u","s","t","-","c","o","m","p","i","l","e","-","s","u","c","c","e","s","s","f","u","l","l","y">>,
     <<"/","/"," ","e","r","r","o","r","-","p","a","t","t","e","r","n",":"," ","x">>,
     <<"/","/"," ","c","h","e","c","k","-","s","t","d","o","u","t">>,
     <<"/","/"," ","f","o","r","b","i","d","-","o","u","t","p","u","t",":","y">>,
     <<"/","/"," ","a","u","x","-","b","u","i","l","d",":","h",".","r","s">>}

RunFiles ==
    {[is_dir |-> FALSE, lines |-> ls] : ls \in SeqsUpTo(RunLinePool, MaxFileLines)}

StatusPool == {Some(0), Some(1), Some(VALGRIND_ERR), Some(RUST_ERR)}

StdoutPool == {<<>>, <<"y","\n">>}

\* What a child process can come to: None when it could not be started.
CompileOutcomes ==
    {None} \cup {Some(ProcRes(s, o, e)) :
                    s \in StatusPool, o \in StdoutPool,
                    e \in {<<>>, <<"x","\n">>, InternalCompilerError \o <<"\n">>}}

ExecOutcomes ==
    {None} \cup {Some(ProcRes(s, o, e)) :
                    s \in StatusPool, o \in StdoutPool, e \in {<<>>, <<"x","\n">>}}

\* errors::load_errors and json::parse_output on the test under run.
RunExpectedPool ==
    {<<>>, <<Err(1, Some("Error"), <<"a">>)>>, <<Err(1, None, <<"a">>)>>}

RunActualPool == {<<>>, <<Err(1, Some("Error"), <<"a">>)>>}

\* The reference files of a ui test, each None when it does not exist.
ReferencePool ==
    {[stdout |-> None, stderr |-> None],
     [stdout |-> Some(<<>>), stderr |-> Some(<<"x","\n">>)],
     [stdout |-> Some(<<"y","\n">>), stderr |-> Some(InternalCompilerError \o <<"\n">>)]}

\* compute_aux_test_paths: the source of an auxiliary under auxiliary/.
compute_aux_test_paths(rel_ab) == TestDir \o <<"/","a","u","x","i","l","i","a","r","y","/">> \o rel_ab

\* The files under auxiliary/ in the runs of every mode: h.rs without
\* directives.
PlainAuxFiles ==
    [p \in {compute_aux_test_paths(<<"h",".","r","s">>)} |-> [is_dir |-> FALSE, lines |-> <<>>]]

RunInit ==
    /\ r_config \in RunConfigs
    /\ r_file \in RunFiles
    /\ r_aux_files = PlainAuxFiles
    /\ r_aux_log = <<>>
    /\ r_env = <<>>
    /\ r_base_props = TestProps_new
    /\ r_idx = 0
    /\ r_revision = None
    /\ r_props = TestProps_new
    /\ r_aux_i = 0
    /\ r_proc = None
    /\ r_exec = None
    /\ r_expected = None
    /\ r_reference = None
    /\ r_checks = <<>>
    /\ r_ran = <<>>
    /\ r_fatal = None
    /\ r_stamp = FALSE
    /\ r_pc = "start"

\* The files under auxiliary/ in the runs that look at auxiliary builds: each
\* of h.rs and g.rs is missing, or holds no directive, or one directive.
AuxFileSystems ==
    LET paths == {compute_aux_test_paths(<<"h",".","r","s">>), compute_aux_test_paths(<<"g",".","r","s">>)}
        contents == {<<>>,
                     <<<<"/","/"," ","n","o","-","p","r","e","f","e","r","-","d","y","n","a","m","i","c">>>>,
                     <<<<"/","/"," ","f","o","r","c","e","-","h","o","s","t">>>>,
                     <<<<"/","/"," ","a","u","x","-","b","u","i","l","d",":","g",".","r","s">>>>}
    IN  UNION {[d -> {[is_dir |-> FALSE, lines |-> c] : c \in contents}] :
                 d \in SUBSET paths}

\* The runs that look at auxiliary builds: tests with one or two aux-build
\* directives, on the host in every mode and on three targets without
\* dynamic libraries.
AuxInit ==
    /\ r_config \in
          {Config(m, HostConfig.target, FALSE) : m \in Modes}
          \cup {Config("CompileFail", t, FALSE) :
                   t \in {<<"x","8","6","_","6","4","-","u","n","k","n","o","w","n","-","l","i","n","u","x","-","m","u","s","l">>,
                          <<"w","a","s","m","3","2","-","u","n","k","n","o","w","n","-","u","n","k","n","o","w","n">>,
                          <<"a","s","m","j","s","-","u","n","k","n","o","w","n","-","e","m","s","c","r","i","p","t","e","n">>}}
    /\ r_file \in
          {[is_dir |-> FALSE, lines |-> ls] :
             ls \in {<<<<"/","/"," ","a","u","x","-","b","u","i","l","d",":","h",".","r","s">>>>,
                     <<<<"/","/"," ","a","u","x","-","b","u","i","l","d",":","h",".","r","s">>, <<"/","/"," ","a","u","x","-","b","u","i","l","d",":","g",".","r","s">>>>,
                     <<<<"/","/"," ","a","u","x","-","b","u","i","l","d",":","g",".","r","s">>, <<"/","/"," ","a","u","x","-","b","u","i","l","d",":","h",".","r","s">>>>,
                     <<<<"/","/"," ","r","e","v","i","s","i","o","n","s",":"," ","a"," ","b">>, <<"/","/"," ","a","u","x","-","b","u","i","l","d",":","h",".","r","s">>>>}}
    /\ r_aux_files \in AuxFileSystems
    /\ r_aux_log = <<>>
    /\ r_env = <<>>
    /\ r_base_props = TestProps_new
    /\ r_idx = 0
    /\ r_revision = None
    /\ r_props = TestProps_new
    /\ r_aux_i = 0
    /\ r_proc = None
    /\ r_exec = None
    /\ r_expected = None
    /\ r_reference = None
    /\ r_checks = <<>>
    /\ r_ran = <<>>
    /\ r_fatal = None
    /\ r_stamp = FALSE
    /\ r_pc = "start"

RunIdle ==
    /\ r_config = Config("CompileFail", HostConfig.target, FALSE)
    /\ r_file = [is_dir |-> FALSE, lines |-> <<>>]
    /\ r_env = <<>>
    /\ r_base_props = TestProps_new
    /\ r_idx = 0
    /\ r_revision = None
    /\ r_props = TestProps_new
    /\ r_aux_i = 0
    /\ r_aux_files = PlainAuxFiles
    /\ r_aux_log = <<>>
    /\ r_proc = None
    /\ r_exec = None
    /\ r_expected = None
    /\ r_reference = None
    /\ r_checks = <<>>
    /\ r_ran = <<>>
    /\ r_fatal = None
    /\ r_stamp = FALSE
    /\ r_pc = "idle"

\* A mutant of Fatal: the error is recorded and the test goes on.
Fatal_goes_on(msg) ==
    /\ r_fatal' = Some(msg)
    /\ r_pc' = r_pc

\* A panic of the test: fatal, fatal_proc_rec, panic!, assert!, expect.
Fatal(msg) ==
    /\ r_fatal' = Some(msg)
    /\ r_pc' = "failed"

\* run, lines 43-67.
RunStart ==
    /\ r_pc = "start"
    /\ IF r_config.target \in AndroidTargets /\ ~r_config.adb_device_status
       THEN /\ Fatal("android device not available")
            /\ UNCHANGED r_base_props
       ELSE \E base \in {TestProps_from_file(r_file, None, r_config, r_env)} :
                IF base.panic
                THEN /\ Fatal("malformed condition directive")
                     /\ UNCHANGED r_base_props
                ELSE /\ r_base_props' = base.props
                     /\ r_pc' = "next"
                     /\ UNCHANGED r_fatal
    /\ UNCHANGED <<r_config, r_file, r_env, r_idx, r_revision, r_props, r_aux_i, r_aux_files, r_aux_log,
                   r_proc, r_exec, r_expected, r_reference, r_checks, r_ran, r_stamp>>
    /\ UNCHANGED NotRun

\* run, lines 68-80 and run_revision: one more revision is begun.
BeginRevision ==
    /\ r_pc = "next"
    /\ r_idx < Len(run_plan(r_base_props))
    /\ \E revision \in {run_plan(r_base_props)[r_idx + 1]} :
       \E parsed \in {revision_props(r_file, revision, r_base_props, r_config, r_env)} :
           /\ r_idx' = r_idx + 1
           /\ r_revision' = revision
           /\ IF parsed.panic
              THEN /\ Fatal("malformed condition directive")
                   /\ UNCHANGED <<r_props, r_ran>>
              ELSE /\ r_props' = parsed.props
                   /\ r_ran' = Append(r_ran, [revision |-> revision, props |-> parsed.props])
                   /\ r_pc' = IF r_config.mode = "RunMake" THEN "rmake" ELSE "compile"
                   /\ UNCHANGED r_fatal
    /\ r_aux_i' = 0
    /\ r_aux_log' = <<>>
    /\ r_proc' = None
    /\ r_exec' = None
    /\ r_expected' = None
    /\ r_reference' = None
    /\ r_checks' = <<>>
    /\ UNCHANGED <<r_config, r_file, r_env, r_base_props, r_aux_files, r_stamp>>
    /\ UNCHANGED NotRun

\* A mutant of RunComplete: the stamp is written after any revision.
RunComplete_after_any_revision ==
    /\ r_pc = "next"
    /\ r_idx > 0
    /\ r_stamp' = TRUE
    /\ r_pc' = "done"
    /\ UNCHANGED <<r_config, r_file, r_env, r_base_props, r_idx, r_revision, r_props,
                   r_aux_i, r_aux_files, r_aux_log, r_proc, r_exec, r_expected, r_reference,
                   r_checks, r_ran, r_fatal>>
    /\ UNCHANGED NotRun

\* run, lines 84-86: every revision has returned.
RunComplete ==
    /\ r_pc = "next"
    /\ r_idx = Len(run_plan(r_base_props))
    /\ r_stamp' = TRUE
    /\ r_pc' = "done"
    /\ UNCHANGED <<r_config, r_file, r_env, r_base_props, r_idx, r_revision, r_props,
                   r_aux_i, r_aux_files, r_aux_log, r_proc, r_exec, r_expected, r_reference, r_checks, r_ran,
                   r_fatal>>
    /\ UNCHANGED NotRun

\* A mutant of aux_compile: an auxiliary that fails to compile is not fatal.
aux_compile_failure_ignored(test_ab, parsed, config, started, status) ==
    [log |-> <<[file |-> test_ab,
                crate_type |-> crate_type(config, parsed.props),
                aux_builds |-> parsed.props.aux_builds,
                no_prefer_dynamic |-> parsed.props.no_prefer_dynamic,
                force_host |-> parsed.props.force_host,
                outcome |-> IF started /\ success(status) THEN "built"
                            ELSE "failed to compile"]>>,
     fatal |-> None]

\* compose_and_run_compiler, lines 645-693, for an auxiliary whose source
\* exists: [log, fatal].  parsed is what from_aux_file returns, started and
\* status are what becomes of the compiler process.  The log entry keeps the
\* auxiliary, its --crate-type and the outcome.
aux_compile(test_ab, parsed, config, started, status) ==
    IF parsed.panic
    THEN [log |-> <<>>, fatal |-> Some("malformed condition directive")]
    ELSE [log |-> <<[file |-> test_ab,
                     crate_type |-> crate_type(config, parsed.props),
                     aux_builds |-> parsed.props.aux_builds,
                     no_prefer_dynamic |-> parsed.props.no_prefer_dynamic,
                     force_host |-> parsed.props.force_host,
                     outcome |-> IF ~started THEN "failed to exec"
                                 ELSE IF ~success(status) THEN "failed to compile"
                                 ELSE "built"]>>,
          fatal |-> IF ~started THEN Some("failed to exec")
                    ELSE IF ~success(status)
                         THEN Some("auxiliary build failed to compile")
                         ELSE None]

\* One pass of the loop of compose_and_run_compiler, lines 641-694, for the
\* auxiliary rel_ab: [log, fatal].
aux_pass(rel_ab, aux_files, cfg, config, env, started, status) ==
    IF compute_aux_test_paths(rel_ab) \notin DOMAIN aux_files
    THEN [log |-> <<[file |-> compute_aux_test_paths(rel_ab), crate_type |-> None,
                     aux_builds |-> <<>>, no_prefer_dynamic |-> FALSE,
                     force_host |-> FALSE, outcome |-> "source not found"]>>,
          fatal |-> Some("aux-build source not found")]
    ELSE aux_compile(compute_aux_test_paths(rel_ab),
                     from_aux_file(aux_files[compute_aux_test_paths(rel_ab)],
                                   cfg, config, env),
                     config, started, status)

\* compose_and_run_compiler, lines 641-694: one auxiliary build.
AuxBuild ==
    /\ r_pc = "compile"
    /\ r_aux_i < Len(r_props.aux_builds)
    /\ \E status \in StatusPool, started \in BOOLEAN :
          \E pass \in {aux_pass(r_props.aux_builds[r_aux_i + 1], r_aux_files,
                                 r_revision, r_config, r_env, started, status)} :
              /\ r_aux_log' = r_aux_log \o pass.log
              /\ r_fatal' = pass.fatal
              /\ r_aux_i' = IF pass.fatal = None THEN r_aux_i + 1 ELSE r_aux_i
              /\ r_pc' = IF pass.fatal = None THEN r_pc ELSE "failed"
    /\ UNCHANGED <<r_config, r_file, r_env, r_base_props, r_idx, r_revision, r_props,
                   r_aux_files, r_proc, r_exec, r_expected, r_reference, r_checks, r_ran,
                   r_stamp>>
    /\ UNCHANGED NotRun

\* The primary compile of compile_test is due: every auxiliary build is done.
CompileDue(mode) ==
    /\ r_pc = "compile"
    /\ r_config.mode = mode
    /\ r_aux_i = Len(r_props.aux_builds)

RunCfailTest ==
    /\ CompileDue("CompileFail")
    /\ \E o \in CompileOutcomes, expected_errors \in RunExpectedPool,
          actual_errors \in RunActualPool :
          IF o = None
          THEN /\ Fatal("failed to exec")
               /\ UNCHANGED <<r_proc, r_expected, r_checks>>
          ELSE \E res \in {run_cfail_test(r_props, o[1], expected_errors, actual_errors)} :
                   /\ r_proc' = o
                   /\ r_expected' = IF Len(res.checks) >= 2 THEN Some(expected_errors)
                                    ELSE None
                   /\ r_checks' = res.checks
                   /\ r_fatal' = res.fatal
                   /\ r_pc' = IF res.fatal = None THEN "next" ELSE "failed"
    /\ UNCHANGED <<r_config, r_file, r_env, r_base_props, r_idx, r_revision, r_props,
                   r_aux_i, r_aux_files, r_aux_log, r_exec, r_reference, r_ran, r_stamp>>
    /\ UNCHANGED NotRun

RunRfailCompile ==
    /\ CompileDue("RunFail")
    /\ \E o \in CompileOutcomes :
          IF o = None THEN Fatal("failed to exec") /\ UNCHANGED r_proc
          ELSE /\ r_proc' = o
               /\ IF ~success(o[1].status)
                  THEN Fatal("compilation failed!")
                  ELSE r_pc' = "exec" /\ UNCHANGED r_fatal
    /\ UNCHANGED <<r_config, r_file, r_env, r_base_props, r_idx, r_revision, r_props,
                   r_aux_i, r_aux_files, r_aux_log, r_exec, r_expected, r_reference, r_checks, r_ran, r_stamp>>
    /\ UNCHANGED NotRun

RunRfailExec ==
    /\ r_pc = "exec"
    /\ r_config.mode = "RunFail"
    /\ \E o \in ExecOutcomes :
          IF o = None
          THEN /\ Fatal("failed to exec")
               /\ UNCHANGED <<r_exec, r_checks>>
          ELSE \E res \in {run_rfail_test(r_props, o[1])} :
                   /\ r_exec' = o
                   /\ r_checks' = res.checks
                   /\ r_fatal' = res.fatal
                   /\ r_pc' = IF res.fatal = None THEN "next" ELSE "failed"
    /\ UNCHANGED <<r_config, r_file, r_env, r_base_props, r_idx, r_revision, r_props,
                   r_aux_i, r_aux_files, r_aux_log, r_proc, r_expected, r_reference, r_ran, r_stamp>>
    /\ UNCHANGED NotRun

RunRpassCompile ==
    /\ CompileDue("RunPass")
    /\ \E o \in CompileOutcomes, expected_errors \in RunExpectedPool :
          IF o = None
          THEN /\ Fatal("failed to exec")
               /\ UNCHANGED <<r_proc, r_expected>>
          ELSE /\ r_proc' = o
               /\ IF ~success(o[1].status)
                  THEN /\ Fatal("compilation failed!")
                       /\ UNCHANGED r_expected
                  ELSE /\ r_expected' = Some(expected_errors)
                       /\ IF rpass_expected_errors(expected_errors) # None
                          THEN Fatal(rpass_expected_errors(expected_errors)[1])
                          ELSE r_pc' = "exec" /\ UNCHANGED r_fatal
    /\ UNCHANGED <<r_config, r_file, r_env, r_base_props, r_idx, r_revision, r_props,
                   r_aux_i, r_aux_files, r_aux_log, r_exec, r_reference, r_checks, r_ran, r_stamp>>
    /\ UNCHANGED NotRun

\* run_rpass_test, lines 205-209.
RunRpassExec ==
    /\ r_pc = "exec"
    /\ r_config.mode = "RunPass"
    /\ \E o \in ExecOutcomes :
          IF o = None THEN Fatal("failed to exec") /\ UNCHANGED r_exec
          ELSE /\ r_exec' = o
               /\ IF ~success(o[1].status)
                  THEN Fatal("test run failed!")
                  ELSE r_pc' = "next" /\ UNCHANGED r_fatal
    /\ UNCHANGED <<r_config, r_file, r_env, r_base_props, r_idx, r_revision, r_props,
                   r_aux_i, r_aux_files, r_aux_log, r_proc, r_expected, r_reference, r_checks, r_ran, r_stamp>>
    /\ UNCHANGED NotRun

\* props.run_pass is not a field header.rs sets: any value.
RunUiTest ==
    /\ CompileDue("Ui")
    /\ \E o \in CompileOutcomes, reference \in ReferencePool, run_pass \in BOOLEAN :
          IF o = None
          THEN /\ Fatal("failed to exec")
               /\ UNCHANGED <<r_proc, r_reference>>
          ELSE /\ r_proc' = o
               /\ r_reference' = Some(reference)
               /\ \E failed \in {ui_compare(r_props, o[1], reference)} :
                     IF failed # None
                     THEN Fatal(failed[1])
                     ELSE /\ r_pc' = IF run_pass THEN "exec" ELSE "next"
                          /\ UNCHANGED r_fatal
    /\ UNCHANGED <<r_config, r_file, r_env, r_base_props, r_idx, r_revision, r_props,
                   r_aux_i, r_aux_files, r_aux_log, r_exec, r_expected, r_checks, r_ran, r_stamp>>
    /\ UNCHANGED NotRun

\* run_ui_test, lines 1154-1160.
RunUiExec ==
    /\ r_pc = "exec"
    /\ r_config.mode = "Ui"
    /\ \E o \in ExecOutcomes :
          IF o = None THEN Fatal("failed to exec") /\ UNCHANGED r_exec
          ELSE /\ r_exec' = o
               /\ IF ~success(o[1].status)
                  THEN Fatal("test run failed!")
                  ELSE r_pc' = "next" /\ UNCHANGED r_fatal
    /\ UNCHANGED <<r_config, r_file, r_env, r_base_props, r_idx, r_revision, r_props,
                   r_aux_i, r_aux_files, r_aux_log, r_proc, r_expected, r_reference, r_checks, r_ran, r_stamp>>
    /\ UNCHANGED NotRun

\* A mutant of RunRmakeTest: make is run whatever the target.
RunRmakeTest_on_any_target ==
    /\ r_pc = "rmake"
    /\ r_checks' = <<"create_dir_all">>
    /\ \E o \in CompileOutcomes :
          IF o = None
          THEN Fatal("failed to spawn make") /\ UNCHANGED r_proc
          ELSE /\ r_proc' = o
               /\ IF ~success(o[1].status)
                  THEN Fatal("make failed")
                  ELSE r_pc' = "next" /\ UNCHANGED r_fatal
    /\ UNCHANGED <<r_config, r_file, r_env, r_base_props, r_idx, r_revision, r_props,
                   r_aux_i, r_aux_files, r_aux_log, r_exec, r_expected, r_reference, r_ran, r_stamp>>
    /\ UNCHANGED NotRun

\* run_rmake_test: the early return, or the temporary directory is made
\* anew (r_checks tells) and make is run.
RunRmakeTest ==
    /\ r_pc = "rmake"
    /\ IF r_config.host # r_config.target
       THEN /\ r_pc' = "next"
            /\ UNCHANGED <<r_proc, r_fatal, r_checks>>
       ELSE /\ r_checks' = <<"create_dir_all">>
            /\ \E o \in CompileOutcomes :
                  IF o = None
                  THEN Fatal("failed to spawn make") /\ UNCHANGED r_proc
                  ELSE /\ r_proc' = o
                       /\ IF ~success(o[1].status)
                          THEN Fatal("make failed")
                          ELSE r_pc' = "next" /\ UNCHANGED r_fatal
    /\ UNCHANGED <<r_config, r_file, r_env, r_base_props, r_idx, r_revision, r_props,
                   r_aux_i, r_aux_files, r_aux_log, r_exec, r_expected, r_reference, r_ran, r_stamp>>
    /\ UNCHANGED NotRun

Next ==
    \/ RunStart
    \/ BeginRevision
    \/ RunComplete
    \/ AuxBuild
    \/ RunCfailTest
    \/ RunRfailCompile
    \/ RunRfailExec
    \/ RunRpassCompile
    \/ RunRpassExec
    \/ RunUiTest
    \/ RunUiExec
    \/ RunRmakeTest

\* Some one-to-one pairing gives every expected entry an actual diagnostic of
\* its own that matches it, and leaves no reportable diagnostic unpaired.
PerfectPairing ==
    \E f \in [DOMAIN m_expected -> DOMAIN m_actual] :
        /\ \A k1, k2 \in DOMAIN m_expected : k1 # k2 => f[k1] # f[k2]
        /\ \A k \in DOMAIN m_expected : Compatible(m_actual[f[k]], m_expected[k])
        /\ \A j \in DOMAIN m_actual :
              (\A k \in DOMAIN m_expected : f[k] # j) => ~Reportable(m_actual[j])

\* C37: the verdict does not depend on the order of the diagnostics: when a
\* one-to-one pairing of the expected entries with matching diagnostics
\* exists that leaves no reportable diagnostic unpaired, the matcher reports
\* nothing missing and nothing unexpected.
C37_OrderIndependent ==
    (VerdictReached /\ PerfectPairing) => (m_unexpected = <<>> /\ m_not_found = <<>>)

(***************************************************************************)
(* Claims about runtest::run.                                              *)
(***************************************************************************)
\* run_revision has returned for the revision last begun.
RevisionReturned == r_pc \in {"next", "done"} /\ r_idx > 0

\* The base properties have been parsed.
BaseParsed == r_pc \notin {"idle", "start"} /\ ~(r_pc = "failed" /\ r_idx = 0)

PropsOfRevision(revision) ==
    TestProps_from_file(r_file, revision, r_config, r_env).props

\* C1: with a non-empty `revisions` list in the base properties the mode's
\* plan is run once per entry, in list order, each time with the properties
\* parsed for that revision, |revisions| times in all when run completes;
\* with an empty list it is run once, with no revision and the base
\* properties.
C1_OncePerRevision ==
    BaseParsed =>
        LET revisions == r_base_props.revisions
            times == IF revisions = <<>> THEN 1 ELSE Len(revisions)
        IN  /\ r_base_props = PropsOfRevision(None)
            /\ Len(r_ran) <= times
            /\ \A i \in DOMAIN r_ran :
                  IF revisions = <<>>
                  THEN r_ran[i] = [revision |-> None, props |-> r_base_props]
                  ELSE r_ran[i] = [revision |-> <<revisions[i]>>,
                                   props |-> PropsOfRevision(<<revisions[i]>>)]
            /\ r_pc = "done" => Len(r_ran) = times

C1_Witness ==
    /\ r_pc = "done"
    /\ Len(r_ran) = 2
    /\ r_ran[1].revision = <<<<"a">>>>
    /\ r_ran[2].revision = <<<<"b">>>>
    /\ r_ran[1].props.must_compile_successfully
    /\ ~r_ran[2].props.must_compile_successfully

CompileStatus == r_proc[1].status

\* C5: in CompileFail mode with must_compile_successfully set, a revision
\* whose compile does not exit with success is fatal; without it, a revision
\* whose compile exits with success or with a code other than 101 is fatal;
\* so a revision returns only with the status its setting asks for.
C5_CompileFailStatus ==
    (r_config.mode = "CompileFail" /\ r_proc # <<>>) =>
        /\ RevisionReturned =>
              IF r_props.must_compile_successfully
              THEN CompileStatus = <<0>>
              ELSE CompileStatus = <<101>>
        /\ (r_props.must_compile_successfully /\ CompileStatus # <<0>>) =>
              /\ r_pc = "failed"
              /\ r_fatal = <<"test compilation failed although it shouldn't!">>
        /\ (~r_props.must_compile_successfully /\ CompileStatus = <<0>>) =>
              /\ r_pc = "failed"
              /\ r_fatal = <<"test compiled successfully!">>
        /\ (~r_props.must_compile_successfully /\ CompileStatus \notin {<<0>>, <<101>>}) =>
              /\ r_pc = "failed"
              /\ r_fatal = <<"failure produced the wrong error">>

C5_Witness ==
    /\ r_config.mode = "CompileFail"
    /\ RevisionReturned
    /\ ~r_props.must_compile_successfully
    /\ CompileStatus = <<101>>

ChecksMade == {r_checks[i] : i \in DOMAIN r_checks}

\* The output get_output chooses from a child's result.
ChosenOutput(proc) ==
    IF r_props.check_stdout THEN proc.stdout \o proc.stderr ELSE proc.stderr

\* Every error pattern, trimmed, occurs in a line of the output.
PatternsFound(output) ==
    \A i \in DOMAIN r_props.error_patterns :
        \E n \in DOMAIN Lines(output) :
            IsSubstring(Trim(r_props.error_patterns[i]), Lines(output)[n])

\* C6: in CompileFail mode, when the revision has no expected-error entry the
\* matcher is not run and error_patterns is checked against the chosen
\* output; with no pattern either the revision is fatal with "no error
\* pattern specified" when must_compile_successfully is false, and the
\* pattern check passes when it is true.
C6_ErrorPatternFallback ==
    (r_config.mode = "CompileFail" /\ r_expected = <<<<>>>>) =>
        /\ "check_expected_errors" \notin ChecksMade
        /\ r_checks[2] = "check_error_patterns"
        /\ Len(r_checks) > 2 => PatternsFound(ChosenOutput(r_proc[1]))
        /\ (r_props.error_patterns = <<>> /\ ~r_props.must_compile_successfully) =>
              /\ r_pc = "failed"
              /\ r_fatal = <<"no error pattern specified">>
              /\ Len(r_checks) = 2
        /\ (r_props.error_patterns = <<>> /\ r_props.must_compile_successfully) =>
              Len(r_checks) > 2

C6_Witness ==
    /\ r_config.mode = "CompileFail"
    /\ r_expected = <<<<>>>>
    /\ r_props.error_patterns = <<>>
    /\ ~r_props.must_compile_successfully
    /\ CompileStatus = <<101>>
    /\ r_pc = "failed"

HasInternalCompilerError(stderr) ==
    \E n \in DOMAIN Lines(stderr) :
        IsSubstring(<<"e","r","r","o","r",":"," ","i","n","t","e","r","n","a","l"," ",
                      "c","o","m","p","i","l","e","r"," ","e","r","r","o","r">>,
                    Lines(stderr)[n])

\* C8: in each of the modes CompileFail, RunFail, RunPass and Ui, a revision
\* whose compile wrote a line with the marker `error: internal compiler
\* error` to stderr does not return: the test ends as failed.
C8_InternalCompilerErrorFatal ==
    (/\ r_config.mode \in {"CompileFail", "RunFail", "RunPass", "Ui"}
     /\ r_proc # <<>>
     /\ HasInternalCompilerError(r_proc[1].stderr)) =>
        ~RevisionReturned

\* C9: a RunFail revision returns only if the compile succeeded, the program
\* exited with code 101 and every error pattern is found in the chosen
\* output; an exit code of 100 is fatal with its own message, before the
\* check for 101 is made.
C9_RunFail ==
    r_config.mode = "RunFail" =>
        /\ RevisionReturned =>
              /\ r_proc # <<>> /\ CompileStatus = <<0>>
              /\ r_exec # <<>> /\ r_exec[1].status = <<101>>
              /\ PatternsFound(ChosenOutput(r_exec[1]))
        /\ (r_exec # <<>> /\ r_exec[1].status = <<100>>) =>
              /\ r_pc = "failed"
              /\ r_fatal = <<"run-fail test isn't valgrind-clean!">>
              /\ "status" \notin ChecksMade

C9_Witness ==
    /\ r_config.mode = "RunFail"
    /\ RevisionReturned
    /\ r_props.error_patterns # <<>>
    /\ r_props.check_stdout

\* C10: a RunPass revision returns iff the compile exited with success, the
\* revision has no expected-error entry and the program exited with
\* success; the program is not executed after a failed compile or with a
\* non-empty expected-error list.
C10_RunPass ==
    (r_config.mode = "RunPass" /\ r_idx > 0) =>
        /\ r_pc \in {"next", "done", "failed"} =>
              (RevisionReturned <=>
                  /\ r_proc # <<>> /\ CompileStatus = <<0>>
                  /\ r_expected = <<<<>>>>
                  /\ r_exec # <<>> /\ r_exec[1].status = <<0>>)
        /\ (r_pc = "exec" \/ r_exec # <<>>) =>
              /\ r_proc # <<>> /\ CompileStatus = <<0>>
              /\ r_expected = <<<<>>>>

C10_Witness ==
    /\ r_config.mode = "RunPass"
    /\ RevisionReturned
    /\ r_exec # <<>>
    /\ Len(r_ran) = 2

\* The text a reference file stands for: empty when the file is missing.
ReferenceText(file) == IF file = <<>> THEN <<>> ELSE file[1]

\* The streams of the ui compile whose normalized text differs from the
\* reference.
DifferingStreams ==
    {k \in {"stdout", "stderr"} :
        IF k = "stdout"
        THEN normalize_output(TestDir, r_props.compile_flags, r_proc[1].stdout,
                              r_props.normalize_stdout)
                # ReferenceText(r_reference[1].stdout)
        ELSE normalize_output(TestDir, r_props.compile_flags, r_proc[1].stderr,
                              r_props.normalize_stderr)
                # ReferenceText(r_reference[1].stderr)}

\* C11: in Ui mode, once the compile has returned, the count in the fatal
\* error is the number of streams (0, 1 or 2) whose normalized text differs
\* from its reference file, a missing file standing for the empty text; the
\* revision is fatal at the comparison iff that number is not zero, and the
\* program of a run_pass test is executed only when it is zero.
C11_UiCompare ==
    (r_config.mode = "Ui" /\ r_proc # <<>>) =>
        /\ r_reference # <<>>
        /\ \E errors \in {Cardinality(DifferingStreams)} :
              /\ errors = 0 =>
                    /\ r_pc \in {"exec", "next", "done", "failed"}
                    /\ r_pc = "failed" => r_exec # <<>> \/ r_fatal = <<"failed to exec">>
              /\ errors = 1 =>
                    /\ r_pc = "failed"
                    /\ r_fatal = <<"1 errors occurred comparing output.">>
              /\ errors = 2 =>
                    /\ r_pc = "failed"
                    /\ r_fatal = <<"2 errors occurred comparing output.">>
              /\ (r_pc = "exec" \/ r_exec # <<>>) => errors = 0

C11_Witness ==
    /\ r_config.mode = "Ui"
    /\ r_proc # <<>>
    /\ r_reference = <<[stdout |-> <<>>, stderr |-> <<>>]>>
    /\ DifferingStreams = {"stdout", "stderr"}
    /\ r_fatal = <<"2 errors occurred comparing output.">>

(***************************************************************************)
(* Claims about the auxiliary builds, fatal errors and the stamp.          *)
(***************************************************************************)
\* The source of the k-th aux-build directive of the revision under way.
AuxSource(k) == TestDir \o <<"/","a","u","x","i","l","i","a","r","y","/">> \o r_props.aux_builds[k]

\* C14: the auxiliaries are built one at a time in the order of the aux-build
\* directives, all of them before the primary compile; an auxiliary whose
\* source is missing or whose compile fails is fatal for the test with the
\* error about that auxiliary, and then neither a later auxiliary nor the
\* primary compile is invoked.  (r_proc is the compiler's result in every
\* mode but RunMake, which compiles nothing itself.)
C14_AuxBuildOrder ==
    r_pc \in {"compile", "exec", "next", "done", "failed"} =>
        /\ Len(r_aux_log) <= Len(r_props.aux_builds)
        /\ \A k \in DOMAIN r_aux_log :
              /\ r_aux_log[k].file = AuxSource(k)
              /\ k < Len(r_aux_log) => r_aux_log[k].outcome = "built"
              /\ r_aux_log[k].outcome = "source not found" <=>
                    AuxSource(k) \notin DOMAIN r_aux_files
        /\ (r_config.mode # "RunMake" /\ r_proc # None) =>
              /\ Len(r_aux_log) = Len(r_props.aux_builds)
              /\ \A k \in DOMAIN r_aux_log : r_aux_log[k].outcome = "built"
        /\ \A k \in DOMAIN r_aux_log :
              r_aux_log[k].outcome # "built" =>
                  /\ r_pc = "failed"
                  /\ r_proc = None
                  /\ r_fatal = CASE r_aux_log[k].outcome = "source not found" ->
                                        <<"aux-build source not found">>
                                 [] r_aux_log[k].outcome = "failed to compile" ->
                                        <<"auxiliary build failed to compile">>
                                 [] OTHER -> <<"failed to exec">>

C14_Witness ==
    /\ Len(r_props.aux_builds) = 2
    /\ r_props.aux_builds[1] # r_props.aux_builds[2]
    /\ Len(r_aux_log) = 2
    /\ r_aux_log[1].outcome = "built"
    /\ r_aux_log[2].file = AuxSource(2)
    /\ r_aux_log[2].outcome = "failed to compile"
    /\ r_fatal = <<"auxiliary build failed to compile">>
    /\ r_pc = "failed"
    /\ r_proc = None

\* C15: when an auxiliary is compiled, every auxiliary its own aux-build
\* directives name has been built before it.
C15_AuxBuildRecursive ==
    \A k \in DOMAIN r_aux_log :
        r_aux_log[k].outcome \in {"built", "failed to compile"} =>
            \A j \in DOMAIN r_aux_log[k].aux_builds :
                \E i \in 1..(k - 1) :
                    /\ r_aux_log[i].file =
                          TestDir \o <<"/","a","u","x","i","l","i","a","r","y","/">> \o r_aux_log[k].aux_builds[j]
                    /\ r_aux_log[i].outcome = "built"

NoDylibTarget ==
    \/ IsSubstring(<<"m","u","s","l">>, r_config.target)
    \/ IsSubstring(<<"w","a","s","m","3","2">>, r_config.target)
    \/ IsSubstring(<<"e","m","s","c","r","i","p","t","e","n">>, r_config.target)

Compiled(b) == b.outcome \in {"built", "failed to compile"}

\* C16 as stated: no --crate-type when the auxiliary sets no-prefer-dynamic;
\* otherwise dylib when it sets force-host, on every target; otherwise lib
\* on a target whose name contains musl, wasm32 or emscripten; otherwise
\* dylib.
C16_CrateTypeForceHostAnywhere ==
    \A k \in DOMAIN r_aux_log :
        Compiled(r_aux_log[k]) =>
            r_aux_log[k].crate_type =
                IF r_aux_log[k].no_prefer_dynamic THEN <<>>
                ELSE IF r_aux_log[k].force_host THEN <<"dylib">>
                ELSE IF NoDylibTarget THEN <<"lib">>
                ELSE <<"dylib">>

\* C16, amended: no --crate-type when the auxiliary sets no-prefer-dynamic;
\* otherwise lib on a target whose name contains wasm32 or emscripten, and
\* on a target whose name contains musl unless the auxiliary sets force-host;
\* otherwise dylib.
C16_CrateType ==
    \A k \in DOMAIN r_aux_log :
        Compiled(r_aux_log[k]) =>
            r_aux_log[k].crate_type =
                IF r_aux_log[k].no_prefer_dynamic THEN <<>>
                ELSE IF \/ IsSubstring(<<"w","a","s","m","3","2">>, r_config.target)
                        \/ IsSubstring(<<"e","m","s","c","r","i","p","t","e","n">>, r_config.target)
                        \/ /\ IsSubstring(<<"m","u","s","l">>, r_config.target)
                           /\ ~r_aux_log[k].force_host
                     THEN <<"lib">>
                     ELSE <<"dylib">>

C16_Witness ==
    /\ IsSubstring(<<"w","a","s","m","3","2">>, r_config.target)
    /\ r_aux_log # <<>>
    /\ r_aux_log[1].outcome = "built"
    /\ r_aux_log[1].force_host
    /\ ~r_aux_log[1].no_prefer_dynamic
    /\ r_aux_log[1].crate_type = <<"lib">>

\* C17: a fatal error ends the test as failed, and from a state with a fatal
\* error no step is taken: no phase, auxiliary build, child process or
\* revision is started.
C17_FatalTerminates ==
    [][/\ r_fatal = None
       /\ r_pc # "failed"
       /\ r_fatal' # None <=> r_pc' = "failed"
       /\ r_pc' = "failed" => r_stamp' = FALSE]_vars

C17_Witness ==
    /\ r_pc = "failed"
    /\ r_fatal # None
    /\ r_idx = 1
    /\ Len(r_base_props.revisions) = 2
    /\ r_ran # <<>>
    /\ r_exec = None

\* C18: the stamp is written only when every revision of the plan has
\* returned without a fatal error; a test that failed has no stamp.
C18_StampAfterAllRevisions ==
    /\ r_stamp =>
          /\ r_pc = "done"
          /\ r_fatal = None
          /\ Len(r_ran) = IF r_base_props.revisions = <<>> THEN 1
                          ELSE Len(r_base_props.revisions)
          /\ r_idx = Len(r_ran)
    /\ r_pc = "failed" => ~r_stamp
    /\ r_pc = "done" => r_stamp

C18_Witness ==
    /\ r_stamp
    /\ Len(r_base_props.revisions) = 2
    /\ Len(r_ran) = 2
    /\ r_pc = "done"

(***************************************************************************)
(* TestCx::normalize_output as a function of its inputs: one call, and a   *)
(* second call on the result of the first.                                 *)
(***************************************************************************)
NormalizeInit ==
    /\ n_parent_dir \in {<<"/","a","b","s","/","t","e","s","t","s","/","u","i">>, <<"C",":","\\","u","i">>}
    /\ n_compile_flags \in {<<>>, <<<<"-","-","e","r","r","o","r","-","f","o","r","m","a","t">>, <<"j","s","o","n">>>>}
    /\ n_output \in
          {<<>>,
           <<"e","r","r","o","r",":"," ","i","n"," ","/","a","b","s","/","t","e","s","t","s","/","u","i","/","f","o","o",".","r","s",":","3">>,
           <<"C",":","\\","u","i","\\","f","o","o",".","r","s">>,
           <<"C",":","\\","\\","u","i","\\","\\","f","o","o",".","r","s">>,
           <<"a","\\","n","b">>,
           <<"a","\r","\n","b","\n">>,
           <<"a","\t","b">>,
           <<"a","b">>}
    /\ n_rules \in
          {<<>>,
           << <<<<"a">>, <<"b">>>>, <<<<"b">>, <<"c">>>> >>,
           << <<<<"b">>, <<"c">>>>, <<<<"a">>, <<"b">>>> >>,
           << <<<<"$","D","I","R">>, <<"D">>>> >>}
    /\ n_once = None
    /\ n_twice = None
    /\ n_pc = "call"

NormalizeIdle ==
    /\ n_parent_dir = <<>>
    /\ n_compile_flags = <<>>
    /\ n_output = <<>>
    /\ n_rules = <<>>
    /\ n_once = None
    /\ n_twice = None
    /\ n_pc = "idle"

NormalizeOutput ==
    /\ n_pc = "call"
    /\ n_once' = Some(normalize_output(n_parent_dir, n_compile_flags, n_output, n_rules))
    /\ n_pc' = "once"
    /\ UNCHANGED <<n_parent_dir, n_compile_flags, n_output, n_rules, n_twice>>
    /\ UNCHANGED NotNormalize

NormalizeAgain ==
    /\ n_pc = "once"
    /\ n_twice' = Some(normalize_output(n_parent_dir, n_compile_flags, n_once[1], n_rules))
    /\ n_pc' = "twice"
    /\ UNCHANGED <<n_parent_dir, n_compile_flags, n_output, n_rules, n_once>>
    /\ UNCHANGED NotNormalize

NormalizeNext == NormalizeOutput \/ NormalizeAgain

(***************************************************************************)
(* Claims about normalize_output.                                          *)
(***************************************************************************)
\* Every occurrence of a non-empty text replaced, leftmost first.
RECURSIVE Rewrite(_, _, _)
Rewrite(s, from, to) ==
    IF \E i \in 1..(Len(s) - Len(from) + 1) : SubSeq(s, i, i + Len(from) - 1) = from
    THEN LET i == CHOOSE k \in 1..(Len(s) - Len(from) + 1) :
                    /\ SubSeq(s, k, k + Len(from) - 1) = from
                    /\ \A j \in 1..(k - 1) : SubSeq(s, j, j + Len(from) - 1) # from
         IN  SubSeq(s, 1, i - 1) \o to \o Rewrite(SubSeq(s, i + Len(from), Len(s)), from, to)
    ELSE s

RECURSIVE RewriteByRules(_, _, _)
RewriteByRules(s, rules, k) ==
    IF k > Len(rules) THEN s
    ELSE RewriteByRules(Rewrite(s, rules[k][1], rules[k][2]), rules, k + 1)

JsonMode ==
    \E i \in DOMAIN n_compile_flags :
        /\ n_compile_flags[i] = <<"-","-","e","r","r","o","r","-","f","o","r","m","a","t">>
        /\ i < Len(n_compile_flags)
        /\ n_compile_flags[i + 1] \in {<<"j","s","o","n">>, <<"p","r","e","t","t","y","-","j","s","o","n">>}

\* C12: the normalized text is the output with the parent directory (in
\* JSON mode with its backslashes doubled) replaced by `$DIR`, then in JSON
\* mode backslash+n replaced by a newline, then doubled backslashes undoubled,
\* then backslashes turned into forward slashes, then CRLF into LF, then tabs
\* into backslash+t, then each user rule applied in directive order; the
\* example of `/abs/tests/ui/foo.rs` comes out as `error: in $DIR/foo.rs:3`.
C12_NormalizeRewrites ==
    n_pc \in {"once", "twice"} =>
        LET dir == IF JsonMode THEN Rewrite(n_parent_dir, <<"\\">>, <<"\\","\\">>)
                   ELSE n_parent_dir
            t1 == Rewrite(n_output, dir, <<"$","D","I","R">>)
            t2 == IF JsonMode THEN Rewrite(t1, <<"\\","n">>, <<"\n">>) ELSE t1
            t3 == Rewrite(t2, <<"\\","\\">>, <<"\\">>)
            t4 == Rewrite(t3, <<"\\">>, <<"/">>)
            t5 == Rewrite(t4, <<"\r","\n">>, <<"\n">>)
            t6 == Rewrite(t5, <<"\t">>, <<"\\","t">>)
        IN  /\ n_once = <<RewriteByRules(t6, n_rules, 1)>>
            /\ (/\ n_parent_dir = <<"/","a","b","s","/","t","e","s","t","s","/","u","i">>
                /\ n_output = <<"e","r","r","o","r",":"," ","i","n"," ","/","a","b","s","/","t","e","s","t","s","/","u","i","/","f","o","o",".","r","s",":","3">>
                /\ n_rules = <<>>) =>
                  n_once = <<<<"e","r","r","o","r",":"," ","i","n"," ","$","D","I","R","/","f","o","o",".","r","s",":","3">>>>

C12_Witness ==
    /\ n_pc = "once"
    /\ n_parent_dir = <<"/","a","b","s","/","t","e","s","t","s","/","u","i">>
    /\ n_output = <<"e","r","r","o","r",":"," ","i","n"," ","/","a","b","s","/","t","e","s","t","s","/","u","i","/","f","o","o",".","r","s",":","3">>
    /\ n_rules = <<>>
    /\ n_once = <<<<"e","r","r","o","r",":"," ","i","n"," ","$","D","I","R","/","f","o","o",".","r","s",":","3">>>>

\* C13: normalizing a normalized text, with the same rules, returns it
\* unchanged.
C13_NormalizeIdempotent == n_pc = "twice" => n_twice = n_once

(***************************************************************************)
(* header.rs: EarlyProps::from_file, one action per line of the file.      *)
(***************************************************************************)
\* &str < &str: byte order, over the bytes of the directives and versions.
RECURSIVE str_lt(_, _)
str_lt(a, b) ==
    LET bytes == <<"-",".","/","0","1","2","3","4","5","6","7","8","9",":","_","a","b","c","d","e","f","g","h","i","j","k","l","m","n","o","p","q","r","s","t","u","v","w","x","y","z">>
        ord(c) == CHOOSE k \in DOMAIN bytes : bytes[k] = c
    IN  IF b = <<>> THEN FALSE
        ELSE IF a = <<>> THEN TRUE
        ELSE IF a[1] = b[1] THEN str_lt(Tail(a), Tail(b))
        ELSE ord(a[1]) < ord(b[1])

\* str::rsplit(' ').next(): the text after the last blank, the whole string
\* when it has no blank; an Option that is never None.
rsplit_next(s) ==
    LET spaces == {i \in DOMAIN s : s[i] = " "}
    IN  IF spaces = {} THEN Some(s)
        ELSE Some(SliceFrom(s, (CHOOSE i \in spaces : \A j \in spaces : j <= i) + 1))

\* ignore_llvm, lines 53-80: [panic, ignore]; panic is the `expect` on the
\* version token.
ignore_llvm(config, line) ==
    LET min_version == rsplit_next(TrimRight(line))
    IN IF config.system_llvm /\ StartsWith(line, <<"n","o","-","s","y","s","t","e","m","-","l","l","v","m">>)
       THEN [panic |-> FALSE, ignore |-> TRUE]
       ELSE IF config.llvm_version # None
       THEN IF StartsWith(line, <<"m","i","n","-","l","l","v","m","-","v","e","r","s","i","o","n">>)
            THEN [panic |-> min_version = None,
                  ignore |-> str_lt(config.llvm_version[1], min_version[1])]
            ELSE IF StartsWith(line, <<"m","i","n","-","s","y","s","t","e","m","-","l","l","v","m","-","v","e","r","s","i","o","n">>)
            THEN [panic |-> min_version = None,
                  ignore |-> ~(config.system_llvm /\ str_lt(config.llvm_version[1], min_version[1]))]
            ELSE [panic |-> FALSE, ignore |-> FALSE]
       ELSE [panic |-> FALSE, ignore |-> FALSE]

\* `props.ignore || parse_cfg_name_directive(ln, "ignore") || ignore_llvm(..)`,
\* lines 39-42: ignore_llvm is called only when the first two are false.
early_ignore(props, ln, config) ==
    IF props.ignore \/ parse_cfg_name_directive(ln, <<"i","g","n","o","r","e">>, config)
    THEN [panic |-> FALSE, ignore |-> TRUE]
    ELSE ignore_llvm(config, ln)

\* The callback EarlyProps::from_file hands to iter_header, lines 38-49.
EarlyProps_line(props, ln, config) ==
    [ignore |-> early_ignore(props, ln, config).ignore,
     aux |-> OptPush(props.aux, parse_name_value_directive(ln, <<"a","u","x","-","b","u","i","l","d">>, config)),
     should_fail |-> props.should_fail \/ parse_name_directive(ln, <<"s","h","o","u","l","d","-","f","a","i","l">>)]

MaxEarlyLines == 2

EarlyInit ==
    /\ e_config \in
          {[HostConfig EXCEPT !.target = t] @@ [system_llvm |-> s, llvm_version |-> v] :
             t \in {HostConfig.target, <<"a","r","m","-","l","i","n","u","x","-","a","n","d","r","o","i","d","e","a","b","i">>},
             s \in BOOLEAN,
             v \in {None, Some(<<"7",".","0">>), Some(<<"9",".","0">>)}}
    /\ e_lines \in SeqsUpTo(
          {<<"/","/"," ","i","g","n","o","r","e","-","w","i","n","d","o","w","s">>, <<"/","/"," ","i","g","n","o","r","e","-","l","i","n","u","x">>, <<"/","/"," ","i","g","n","o","r","e","-","t","e","s","t">>,
           <<"/","/"," ","i","g","n","o","r","e","-","x","8","6">>, <<"/","/","i","g","n","o","r","e","-","x","8","6","_","6","4",":"," ","s","l","o","w">>, <<"/","/"," ","i","g","n","o","r","e","-","6","4","b","i","t">>,
           <<"/","/"," ","i","g","n","o","r","e","-","g","n","u">>, <<"/","/"," ","i","g","n","o","r","e","-","s","t","a","g","e","1">>, <<"/","/"," ","i","g","n","o","r","e","-","c","r","o","s","s","-","c","o","m","p","i","l","e">>,
           <<"/","/","[","a","]"," ","i","g","n","o","r","e","-","t","e","s","t">>, <<"/","/"," ","s","h","o","u","l","d","-","f","a","i","l">>, <<"/","/"," ","a","u","x","-","b","u","i","l","d",":","h",".","r","s">>,
           <<"/","/"," ","n","o","-","s","y","s","t","e","m","-","l","l","v","m">>, <<"/","/"," ","m","i","n","-","l","l","v","m","-","v","e","r","s","i","o","n"," ","8",".","0">>, <<"/","/"," ","m","i","n","-","l","l","v","m","-","v","e","r","s","i","o","n">>, <<"/","/"," ","m","i","n","-","s","y","s","t","e","m","-","l","l","v","m","-","v","e","r","s","i","o","n">>,
           <<"/","/"," ","m","i","n","-","s","y","s","t","e","m","-","l","l","v","m","-","v","e","r","s","i","o","n"," ","8",".","0">>, <<"f","n"," ","m","a","i","n","(",")"," ","{","}">>},
          MaxEarlyLines)
    /\ e_i = 0
    /\ e_props = [ignore |-> FALSE, should_fail |-> FALSE, aux |-> <<>>]
    /\ e_pc = "scan"

EarlyIdle ==
    /\ e_config = HostConfig @@ [system_llvm |-> FALSE, llvm_version |-> None]
    /\ e_lines = <<>>
    /\ e_i = 0
    /\ e_props = [ignore |-> FALSE, should_fail |-> FALSE, aux |-> <<>>]
    /\ e_pc = "idle"

\* iter_header with cfg None, one line of the loop, with the callback.
EarlyStep ==
    /\ e_pc = "scan"
    /\ e_i < Len(e_lines)
    /\ \E r \in {iter_header_line(e_lines[e_i + 1], None)} :
          CASE r.kind = "stop" ->
                 /\ e_pc' = "done"
                 /\ UNCHANGED <<e_i, e_props>>
            [] \/ r.kind = "panic"
               \/ r.kind = "emit" /\ early_ignore(e_props, r.text, e_config).panic ->
                 /\ e_pc' = "panic"
                 /\ UNCHANGED <<e_i, e_props>>
            [] OTHER ->
                 /\ e_i' = e_i + 1
                 /\ e_props' = IF r.kind = "emit"
                               THEN EarlyProps_line(e_props, r.text, e_config)
                               ELSE e_props
                 /\ e_pc' = IF e_i + 1 = Len(e_lines) THEN "done" ELSE "scan"
    /\ UNCHANGED <<e_config, e_lines>>
    /\ UNCHANGED NotEarly

(***************************************************************************)
(* Claims about EarlyProps.                                                *)
(***************************************************************************)
\* The directive of the line the scan is at, when the line is a comment
\* without a revision tag: the text after `//`, without leading blanks.
EarlyDirective ==
    LET ln == Trim(e_lines[e_i + 1])
    IN  IF StartsWith(ln, <<"/","/">>) /\ ~StartsWith(ln, <<"/","/","[">>)
        THEN <<TrimLeft(SubSeq(ln, 3, Len(ln)))>>
        ELSE <<>>

\* The tag of an `ignore-<tag>` directive: up to the first colon or blank.
IgnoreTag(directive) ==
    LET rest == SubSeq(directive, 8, Len(directive))
        ends == {i \in DOMAIN rest : rest[i] \in {":", " "}}
    IN  IF ends = {} THEN rest
        ELSE SubSeq(rest, 1, (CHOOSE i \in ends : \A j \in ends : i <= j) - 1)

TagApplies(tag) ==
    \/ tag = <<"t","e","s","t">>
    \/ tag = util_os(e_config.target)
    \/ tag = util_get_arch(e_config.target)
    \/ tag = util_get_pointer_width(e_config.target)
    \/ <<tag>> = util_get_env(e_config.target)
    \/ \E n \in 1..Len(e_config.stage_id) :
          /\ tag = SubSeq(e_config.stage_id, 1, n)
          /\ "-" \notin {tag[i] : i \in DOMAIN tag}
          /\ n = Len(e_config.stage_id) \/ e_config.stage_id[n + 1] = "-"
    \/ tag = <<"c","r","o","s","s","-","c","o","m","p","i","l","e">> /\ e_config.host # e_config.target

\* C20: a step over a directive `ignore-<tag>` leaves ignore true when it was
\* true or the tag is `test`, the target's operating system, architecture,
\* pointer width or environment, the first token of the stage id, or
\* `cross-compile` with host and target different, and leaves it as it was
\* otherwise; on target x86_64-unknown-linux-gnu the file `// ignore-windows`
\* ends with ignore false and the file `// ignore-linux` with ignore true.
C20_IgnoreTag ==
    /\ [][(/\ e_pc = "scan"
           /\ EarlyDirective # <<>>
           /\ SubSeq(EarlyDirective[1], 1, 7) = <<"i","g","n","o","r","e","-">>) =>
              e_props'.ignore =
                 (e_props.ignore \/ TagApplies(IgnoreTag(EarlyDirective[1])))]_vars
    /\ []((e_pc = "done" /\ e_config.target = <<"x","8","6","_","6","4","-","u","n","k","n","o","w","n","-","l","i","n","u","x","-","g","n","u">>) =>
             /\ e_lines = <<<<"/","/"," ","i","g","n","o","r","e","-","w","i","n","d","o","w","s">>>> => ~e_props.ignore
             /\ e_lines = <<<<"/","/"," ","i","g","n","o","r","e","-","l","i","n","u","x">>>> => e_props.ignore)

C20_Witness ==
    /\ e_pc = "done"
    /\ e_config.target = <<"x","8","6","_","6","4","-","u","n","k","n","o","w","n","-","l","i","n","u","x","-","g","n","u">>
    /\ e_lines = <<<<"/","/"," ","i","g","n","o","r","e","-","l","i","n","u","x">>>>
    /\ e_props.ignore

(***************************************************************************)
(* Claims about the LLVM gate of EarlyProps.                               *)
(***************************************************************************)
\* The directive of an untagged comment line, as an Option.
DirectiveOfLine(raw) ==
    LET ln == Trim(raw)
    IN  IF StartsWith(ln, <<"/","/">>) /\ ~StartsWith(ln, <<"/","/","[">>)
        THEN <<TrimLeft(SubSeq(ln, 3, Len(ln)))>>
        ELSE <<>>

\* The directive is `<name> X.Y`, with one blank and a version of digits and dots.
HasVersion(directive, name) ==
    /\ Len(directive) > Len(name) + 1
    /\ SubSeq(directive, 1, Len(name) + 1) = name \o <<" ">>
    /\ \A i \in (Len(name) + 2)..Len(directive) :
          directive[i] \in {".", "0", "1", "2", "3", "4", "5", "6", "7", "8", "9"}

VersionOf(directive, name) == SubSeq(directive, Len(name) + 2, Len(directive))

\* C22: after a file of the one line `// no-system-llvm` ignore is true iff the
\* configuration uses a system LLVM; after `// min-llvm-version X.Y` iff a
\* version is configured and is lexicographically less than X.Y; after
\* `// min-system-llvm-version X.Y` iff the configuration uses a system LLVM
\* and the configured version is lexicographically less than X.Y (with
\* version 7.0 and a system LLVM `// min-system-llvm-version 8.0` gives true,
\* with version 9.0 false).
C22_LlvmGate ==
    (e_pc = "done" /\ Len(e_lines) = 1 /\ DirectiveOfLine(e_lines[1]) # <<>>) =>
       LET d == DirectiveOfLine(e_lines[1])[1]
           system == e_config.system_llvm
           less(min) == /\ e_config.llvm_version # None
                        /\ str_lt(e_config.llvm_version[1], min)
       IN  /\ d = <<"n","o","-","s","y","s","t","e","m","-","l","l","v","m">> => (e_props.ignore <=> system)
           /\ HasVersion(d, <<"m","i","n","-","l","l","v","m","-","v","e","r","s","i","o","n">>) =>
                 (e_props.ignore <=> less(VersionOf(d, <<"m","i","n","-","l","l","v","m","-","v","e","r","s","i","o","n">>)))
           /\ HasVersion(d, <<"m","i","n","-","s","y","s","t","e","m","-","l","l","v","m","-","v","e","r","s","i","o","n">>) =>
                 (e_props.ignore <=>
                     (system /\ less(VersionOf(d, <<"m","i","n","-","s","y","s","t","e","m","-","l","l","v","m","-","v","e","r","s","i","o","n">>))))

\* C23: a step of the early pass over a directive `min-llvm-version` or
\* `min-system-llvm-version` without a version token ends the scan with a
\* panic; it never goes on with ignore set or cleared.
C23_MissingVersionFatal ==
    [][(/\ e_pc = "scan"
        /\ e_i < Len(e_lines)
        /\ DirectiveOfLine(e_lines[e_i + 1]) \in
              {<<<<"m","i","n","-","l","l","v","m","-","v","e","r","s","i","o","n">>>>, <<<<"m","i","n","-","s","y","s","t","e","m","-","l","l","v","m","-","v","e","r","s","i","o","n">>>>}) =>
           e_pc' = "panic"]_vars

(***************************************************************************)
(* Both passes over one test file: lib.rs make_test reads the early        *)
(* properties of the file, runtest.rs run reads its full properties.       *)
(***************************************************************************)
MaxFlagLines == 2

\* The flag directives of TestProps, with their fields.
FlagFields ==
    {<<<<"f","o","r","c","e","-","h","o","s","t">>, "force_host">>,
     <<<<"b","u","i","l","d","-","a","u","x","-","d","o","c","s">>, "build_aux_docs">>,
     <<<<"c","h","e","c","k","-","s","t","d","o","u","t">>, "check_stdout">>,
     <<<<"n","o","-","p","r","e","f","e","r","-","d","y","n","a","m","i","c">>, "no_prefer_dynamic">>,
     <<<<"p","r","e","t","t","y","-","e","x","p","a","n","d","e","d">>, "pretty_expanded">>,
     <<<<"p","r","e","t","t","y","-","c","o","m","p","a","r","e","-","o","n","l","y">>, "pretty_compare_only">>,
     <<<<"m","u","s","t","-","c","o","m","p","i","l","e","-","s","u","c","c","e","s","s","f","u","l","l","y">>, "must_compile_successfully">>,
     <<<<"c","h","e","c","k","-","t","e","s","t","-","l","i","n","e","-","n","u","m","b","e","r","s","-","m","a","t","c","h">>, "check_test_line_numbers_match">>}

ShouldFail == <<"s","h","o","u","l","d","-","f","a","i","l">>

FlagLinePool ==
    {<<"/","/"," ">> \o name \o suffix :
        name \in {p[1] : p \in FlagFields} \cup {ShouldFail},
        suffix \in {<<>>, <<"-","t","e","s","t">>}}
    \cup {<<"/","/"," ","f","o","r","c","e","-","h","o","s","t","-","w","i","n","d","o","w","s">>, <<"/","/"," ","f","o","r","c","e","-","h","o","s","t",":"," ","y","e","s">>, <<"/","/"," ","s","h","o","u","l","d","-","f","a","i","l"," ","x">>,
          <<"/","/"," ","c","h","e","c","k","-","s","t","d","o","u","t","s">>}

MaxScanLines == 2

ScanLinePool ==
    {<<"/","/"," ","c","h","e","c","k","-","s","t","d","o","u","t">>, <<"/","/","[","a","]"," ","f","o","r","c","e","-","h","o","s","t">>, <<"/","/","[","b","]","c","h","e","c","k","-","s","t","d","o","u","t">>,
     <<"f","n"," ","m","a","i","n","(",")"," ","{","}">>, <<" "," ","m","o","d"," ","m",";">>, <<"l","e","t"," ","x"," ","="," ","1",";">>, <<>>,
     <<"/","/","[","a">>, <<" "," ","/","/","["," ","b">>}

NormalizeLinePool ==
    {<<"/","/"," ","n","o","r","m","a","l","i","z","e","-","s","t","d","o","u","t","-","t","e","s","t",":"," ","\"","a","\""," ","-",">"," ","\"","b","\"">>,
     <<"/","/"," ","n","o","r","m","a","l","i","z","e","-","s","t","d","e","r","r","-","6","4","b","i","t",":"," ","\"","\\","t","\""," ","-",">"," ","\"","\"">>,
     <<"/","/"," ","n","o","r","m","a","l","i","z","e","-","s","t","d","e","r","r","-","w","i","n","d","o","w","s",":"," ","\"","a","\""," ","-",">"," ","\"","b","\"">>,
     <<"/","/"," ","n","o","r","m","a","l","i","z","e","-","s","t","d","o","u","t","-","t","e","s","t",":"," ","\"","a","\""," ","-",">"," ","\"","b">>,
     <<"/","/"," ","n","o","r","m","a","l","i","z","e","-","s","t","d","e","r","r","-","t","e","s","t",":"," ","\"","a","\"">>,
     <<"/","/"," ","n","o","r","m","a","l","i","z","e","-","s","t","d","o","u","t","-","t","e","s","t",":"," ","a"," ","-",">"," ","b">>,
     <<"/","/"," ","n","o","r","m","a","l","i","z","e","-","s","t","d","o","u","t",":"," ","\"","a","\""," ","-",">"," ","\"","b","\"">>,
     <<"/","/"," ","n","o","r","m","a","l","i","z","e","-","s","t","d","e","r","r","-","l","i","n","u","x"," ","\"","x","\"","\"","y","\""," ","\"","z","\"">>}

EnvLinePool ==
    {<<"/","/"," ","e","x","e","c","-","e","n","v",":"," ","K","=","V">>, <<"/","/"," ","e","x","e","c","-","e","n","v",":","K","=","V","=","W">>, <<"/","/"," ","e","x","e","c","-","e","n","v",":","K">>,
     <<"/","/"," ","r","u","s","t","c","-","e","n","v",":","K","=","V">>, <<"/","/"," ","r","u","s","t","c","-","e","n","v",":"," ","J">>,
     <<"/","/"," ","e","x","e","c","-","e","n","v",":","R","U","S","T","_","T","E","S","T","_","T","H","R","E","A","D","S","=","2">>, <<"/","/"," ","e","x","e","c","-","e","n","v",":","R","U","S","T","_","T","E","S","T","_","N","O","C","A","P","T","U","R","E">>,
     <<"/","/"," ","e","x","e","c","-","e","n","v",":"," ","R","U","S","T","_","T","E","S","T","_","T","H","R","E","A","D","S","=","2">>}

\* The ambient environment of the harness, as far as load_from reads it.
AmbientPool ==
    {<<>>,
     << <<EnvKeys[2], <<"4">>>> >>,
     << <<EnvKeys[1], <<"1">>>>, <<EnvKeys[2], <<"4">>>> >>}

\* The files of flag directives are read without revision, the files of the
\* other lines with and without.
PassesFiles ==
    {[file |-> [is_dir |-> FALSE, lines |-> ls], cfg |-> None] :
        ls \in SeqsUpTo(FlagLinePool, MaxFlagLines)}
    \cup {[file |-> [is_dir |-> FALSE, lines |-> ls], cfg |-> cfg] :
            ls \in SeqsUpTo(ScanLinePool, MaxScanLines), cfg \in RevisionPool}
    \cup {[file |-> [is_dir |-> FALSE, lines |-> ls], cfg |-> None] :
            ls \in SeqsUpTo(NormalizeLinePool, MaxScanLines)}

EnvFiles ==
    {[is_dir |-> FALSE, lines |-> ls] : ls \in SeqsUpTo(EnvLinePool, MaxScanLines)}

PassesInit ==
    /\ \/ \E f \in PassesFiles : h_file = f.file /\ h_cfg = f.cfg /\ h_env = <<>>
       \/ h_file \in EnvFiles /\ h_cfg = None /\ h_env \in AmbientPool
    /\ h_config = HostConfig
    /\ h_i = 0
    /\ h_emitted = <<>>
    /\ h_props = TestProps_new
    /\ h_pc = "scan"
    /\ e_config = HostConfig @@ [system_llvm |-> FALSE, llvm_version |-> None]
    /\ e_lines = h_file.lines
    /\ e_i = 0
    /\ e_props = [ignore |-> FALSE, should_fail |-> FALSE, aux |-> <<>>]
    /\ e_pc = "scan"

PassesNext == EarlyStep \/ IterHeaderStep \/ IterHeaderReturn \/ LoadFromEnv

(***************************************************************************)
(* Claims about the flag directives.                                       *)
(***************************************************************************)
\* The directive is the name alone, or the name and then a blank or a colon.
WholeWord(directive, name) ==
    \/ directive = name
    \/ /\ Len(directive) > Len(name)
       /\ SubSeq(directive, 1, Len(name)) = name
       /\ directive[Len(name) + 1] \in {" ", ":"}

\* The file of the one line `// <name>-test`.
TaggedFlagFile(name) == <<<<"/","/"," ">> \o name \o <<"-","t","e","s","t">>>>

\* C21 as stated: a flag directive with a tag that matches the configuration,
\* such as `-test`, sets the flag: after the file of the one line
\* `// <name>-test` the flag of that name is set.
C21_FlagConfigSuffix ==
    /\ h_pc = "done" =>
          \A p \in FlagFields :
             h_file.lines = TaggedFlagFile(p[1]) => h_props[p[2]]
    /\ e_pc = "done" =>
          (e_lines = TaggedFlagFile(ShouldFail) => e_props.should_fail)

\* C21, amended: each of the nine flags is set by a directive that is the
\* bare name, alone or followed by a blank or a colon, and stays set; a
\* directive `<name>-<tag>` never sets it: a step of either pass over a
\* directive leaves a flag true exactly when it was true or the directive is
\* the whole word, and the file of the one line `// <name>-test` ends with the
\* flag false.
C21_FlagWholeWord ==
    /\ [][(h_pc = "scan" /\ Len(h_emitted') > Len(h_emitted)) =>
             \A p \in FlagFields :
                h_props'[p[2]] =
                   (h_props[p[2]] \/ WholeWord(h_emitted'[Len(h_emitted')].text, p[1]))]_vars
    /\ [][(e_pc = "scan" /\ e_i' # e_i /\ EarlyDirective # <<>>) =>
             e_props'.should_fail =
                (e_props.should_fail \/ WholeWord(EarlyDirective[1], ShouldFail))]_vars
    /\ [](h_pc = "done" =>
             \A p \in FlagFields :
                h_file.lines = TaggedFlagFile(p[1]) => ~h_props[p[2]])
    /\ [](e_pc = "done" =>
             (e_lines = TaggedFlagFile(ShouldFail) => ~e_props.should_fail))

C21_Witness ==
    /\ h_pc = "done"
    /\ e_pc = "done"
    /\ h_file.lines = <<<<"/","/"," ","f","o","r","c","e","-","h","o","s","t","-","t","e","s","t">>, <<"/","/"," ","s","h","o","u","l","d","-","f","a","i","l">>>>
    /\ ~h_props.force_host
    /\ e_props.should_fail

(***************************************************************************)
(* Claims about the scan of the lines.                                     *)
(***************************************************************************)
\* The trimmed line starts with `//[` and has no `]`.
Unclosed(raw) ==
    /\ StartsWith(Trim(raw), <<"/","/","[">>)
    /\ \A k \in DOMAIN raw : raw[k] # "]"

\* The trimmed line starts with `fn` or `mod`.
StopLine(raw) ==
    \/ StartsWith(Trim(raw), <<"f","n">>)
    \/ StartsWith(Trim(raw), <<"m","o","d">>)

\* The index of the first stop line, one past the last line without one.
FirstStop(lines) ==
    IF \E i \in DOMAIN lines : StopLine(lines[i])
    THEN CHOOSE i \in DOMAIN lines :
            StopLine(lines[i]) /\ \A j \in 1..(i - 1) : ~StopLine(lines[j])
    ELSE Len(lines) + 1

\* C24: in the early pass and in the full pass, with any revision or none, a
\* step of the scan at a line that starts with `//[` and has no `]` ends the
\* scan with a panic; a scan that returned has met no such line before its
\* first line starting with `fn` or `mod`, and a scan panics at such a line
\* only.
C24_UnclosedTagPanics ==
    /\ [][(/\ h_pc = "scan"
           /\ h_i < Len(h_file.lines)
           /\ Unclosed(h_file.lines[h_i + 1])
           /\ hvars' # hvars) => h_pc' = "panic"]_vars
    /\ [][(/\ e_pc = "scan"
           /\ e_i < Len(e_lines)
           /\ Unclosed(e_lines[e_i + 1])
           /\ evars' # evars) => e_pc' = "panic"]_vars
    /\ [](h_pc \in {"env", "done"} =>
             \A i \in 1..(FirstStop(h_file.lines) - 1) : ~Unclosed(h_file.lines[i]))
    /\ [](e_pc = "done" =>
             \A i \in 1..(FirstStop(e_lines) - 1) : ~Unclosed(e_lines[i]))
    /\ [](h_pc = "panic" => Unclosed(h_file.lines[h_i + 1]))
    /\ [](e_pc = "panic" => Unclosed(e_lines[e_i + 1]))

C24_Witness ==
    /\ h_pc = "panic"
    /\ e_pc = "panic"
    /\ h_cfg = Some(<<"b">>)
    /\ h_file.lines = <<<<"/","/","[","b","]","c","h","e","c","k","-","s","t","d","o","u","t">>, <<" "," ","/","/","["," ","b">>>>
    /\ h_props.check_stdout

\* The revision tag of a line `//[T]...`.
TagOfLine(raw) ==
    LET ln == Trim(raw)
    IN  SubSeq(ln, 4, (CHOOSE k \in DOMAIN ln :
                          ln[k] = "]" /\ \A j \in 1..(k - 1) : ln[j] # "]") - 1)

\* The line is a `//` comment that the revision filter lets through.
CommentFor(raw, cfg) ==
    /\ StartsWith(Trim(raw), <<"/","/">>)
    /\ StartsWith(Trim(raw), <<"/","/","[">>) => cfg = Some(TagOfLine(raw))

\* C25: no directive is ever emitted from a line at or after the first line
\* that, trimmed, starts with `fn` or `mod`; a scan that returned has visited
\* every line before that line, whatever the shape of the lines, and has
\* emitted the directive of each `//` comment among them that the revision
\* filter lets through, and of no other line.
C25_StopAtFnOrMod ==
    /\ \A k \in DOMAIN h_emitted : h_emitted[k].idx < FirstStop(h_file.lines)
    /\ (h_pc \in {"env", "done"} /\ ~h_file.is_dir) =>
          /\ h_i = FirstStop(h_file.lines) - 1
          /\ \A i \in 1..h_i :
                HeaderEmitted(i) <=> CommentFor(h_file.lines[i], h_cfg)

C25_Witness ==
    /\ h_pc = "done"
    /\ h_file.lines = <<<<"l","e","t"," ","x"," ","="," ","1",";">>, <<"/","/"," ","c","h","e","c","k","-","s","t","d","o","u","t">>>>
    /\ h_props.check_stdout

(***************************************************************************)
(* Claims about the normalization rules and the environment pairs.         *)
(***************************************************************************)
\* The tag of a directive `<prefix>-<tag>`: up to the first colon or blank.
TagAfter(directive, prefix) ==
    LET rest == SubSeq(directive, Len(prefix) + 2, Len(directive))
        ends == {i \in DOMAIN rest : rest[i] \in {":", " "}}
    IN  IF ends = {} THEN rest
        ELSE SubSeq(rest, 1, (CHOOSE i \in ends : \A j \in ends : i <= j) - 1)

\* The positions of the double quotes of a line.
Quotes(line) == {i \in DOMAIN line : line[i] = "\""}

\* The k-th smallest element of a set of numbers.
Nth(S, k) == CHOOSE x \in S : Cardinality({y \in S : y < x}) = k - 1

\* The rule a directive gives for the prefix, as an Option: the contents of
\* its first two quoted strings when its tag applies and it has four quotes.
RuleOf(directive, prefix) ==
    IF /\ StartsWith(directive, prefix \o <<"-">>)
       /\ TagApplies(TagAfter(directive, prefix))
       /\ Cardinality(Quotes(directive)) >= 4
    THEN LET q == Quotes(directive)
         IN  << <<SubSeq(directive, Nth(q, 1) + 1, Nth(q, 2) - 1),
                  SubSeq(directive, Nth(q, 3) + 1, Nth(q, 4) - 1)>> >>
    ELSE <<>>

\* C26: a step of the full pass over a directive appends to normalize_stdout
\* (normalize_stderr) the rule made of the literal contents of the first two
\* double-quoted strings of a `normalize-stdout-<tag>` (`normalize-stderr-<tag>`)
\* directive whose tag matches the configuration, and leaves the list as it
\* was for any other directive, one with a missing or unbalanced quote
\* included; the scan goes on to the next line without a panic.
C26_NormalizationRule ==
    [][(h_pc = "scan" /\ Len(h_emitted') > Len(h_emitted)) =>
          LET d == h_emitted'[Len(h_emitted')].text
          IN  /\ h_props'.normalize_stdout =
                    h_props.normalize_stdout \o RuleOf(d, <<"n","o","r","m","a","l","i","z","e","-","s","t","d","o","u","t">>)
              /\ h_props'.normalize_stderr =
                    h_props.normalize_stderr \o RuleOf(d, <<"n","o","r","m","a","l","i","z","e","-","s","t","d","e","r","r">>)
              /\ h_pc' = "scan"
              /\ h_i' = h_i + 1]_vars

C26_Witness ==
    /\ h_pc = "done"
    /\ h_file.lines = <<<<"/","/"," ","n","o","r","m","a","l","i","z","e","-","s","t","d","o","u","t","-","t","e","s","t",":"," ","\"","a","\""," ","-",">"," ","\"","b">>,
                        <<"/","/"," ","n","o","r","m","a","l","i","z","e","-","s","t","d","e","r","r","-","6","4","b","i","t",":"," ","\"","\\","t","\""," ","-",">"," ","\"","\"">>>>
    /\ h_props.normalize_stdout = <<>>
    /\ h_props.normalize_stderr = << <<<<"\\","t">>, <<>>>> >>

\* The text of a directive `<name>: body` after the colon, as an Option; the
\* blanks between the colon and the body are not part of the body.
BodyOf(directive, name) ==
    IF StartsWith(directive, name \o <<":">>)
    THEN <<TrimLeft(SubSeq(directive, Len(name) + 2, Len(directive)))>>
    ELSE <<>>

\* The pair of a body `K=V` or `K`: split at the first `=`.
PairOf(body) ==
    LET eqs == {i \in DOMAIN body : body[i] = "="}
    IN  IF eqs = {} THEN <<body, <<>>>>
        ELSE LET eq == CHOOSE i \in eqs : \A j \in eqs : i <= j
             IN  <<SubSeq(body, 1, eq - 1), SubSeq(body, eq + 1, Len(body))>>

PairsOfDirective(directive, name) ==
    IF BodyOf(directive, name) = <<>> THEN <<>>
    ELSE <<PairOf(BodyOf(directive, name)[1])>>

\* C27: a step of the full pass over a directive `exec-env: K=V` appends the
\* pair (K, V) to exec_env, over `exec-env: K` the pair (K, empty string),
\* split at the first `=` only, after the pairs already there, equal keys
\* included; `rustc-env` does the same to rustc_env; no other directive
\* changes either list.
C27_EnvPairs ==
    [][(h_pc = "scan" /\ Len(h_emitted') > Len(h_emitted)) =>
          LET d == h_emitted'[Len(h_emitted')].text
          IN  /\ h_props'.exec_env =
                    h_props.exec_env \o PairsOfDirective(d, <<"e","x","e","c","-","e","n","v">>)
              /\ h_props'.rustc_env =
                    h_props.rustc_env \o PairsOfDirective(d, <<"r","u","s","t","c","-","e","n","v">>)]_vars

\* The value the ambient environment gives a variable, as a set.
Ambient(key) == {h_env[i][2] : i \in {j \in DOMAIN h_env : h_env[j][1] = key}}

\* The pairs the `exec-env` directives of the lines give, in the order of
\* the lines, up to the first line starting with `fn` or `mod`.
RECURSIVE ExecEnvPairs(_, _)
ExecEnvPairs(lines, i) ==
    IF i > Len(lines) \/ StopLine(lines[i]) THEN <<>>
    ELSE (IF DirectiveOfLine(lines[i]) = <<>> THEN <<>>
          ELSE PairsOfDirective(DirectiveOfLine(lines[i])[1], <<"e","x","e","c","-","e","n","v">>))
         \o ExecEnvPairs(lines, i + 1)

\* C28: after a full parse exec_env holds the pairs of the `exec-env`
\* directives and then, for each of RUST_TEST_NOCAPTURE and RUST_TEST_THREADS,
\* one entry with the ambient value when the variable is set in the
\* environment and no directive set it, and nothing for a variable that is
\* unset or that a directive set.
C28_ReservedEnv ==
    h_pc = "done" =>
       \E added \in SeqsUpTo(UNION {{<<k, v>> : v \in Ambient(k)} :
                                      k \in {EnvKeys[1], EnvKeys[2]}}, 2) :
          /\ h_props.exec_env = ExecEnvPairs(h_file.lines, 1) \o added
          /\ \A k \in {EnvKeys[1], EnvKeys[2]} :
                Cardinality({i \in DOMAIN added : added[i][1] = k}) =
                   IF /\ Ambient(k) # {}
                      /\ \A i \in DOMAIN ExecEnvPairs(h_file.lines, 1) :
                            ExecEnvPairs(h_file.lines, 1)[i][1] # k
                   THEN 1 ELSE 0

(***************************************************************************)
(* runtest.rs: the runs of the modes that scan the output for patterns.    *)
(***************************************************************************)
MaxOutputLines == 2

OutputLinePool ==
    {<<"/","/"," ","e","r","r","o","r","-","p","a","t","t","e","r","n",":","y">>, <<"/","/"," ","e","r","r","o","r","-","p","a","t","t","e","r","n",":"," ","x">>, <<"/","/"," ","c","h","e","c","k","-","s","t","d","o","u","t">>,
     <<"/","/"," ","f","o","r","b","i","d","-","o","u","t","p","u","t",":","y">>, <<"/","/"," ","f","o","r","b","i","d","-","o","u","t","p","u","t",":","x">>,
     <<"/","/"," ","m","u","s","t","-","c","o","m","p","i","l","e","-","s","u","c","c","e","s","s","f","u","l","l","y">>}

OutputInit ==
    /\ r_config \in {Config(m, HostConfig.target, FALSE) : m \in {"CompileFail", "RunFail"}}
    /\ r_file \in {[is_dir |-> FALSE, lines |-> ls] :
                     ls \in SeqsUpTo(OutputLinePool, MaxOutputLines)}
    /\ r_aux_files = PlainAuxFiles
    /\ r_aux_log = <<>>
    /\ r_env = <<>>
    /\ r_base_props = TestProps_new
    /\ r_idx = 0
    /\ r_revision = None
    /\ r_props = TestProps_new
    /\ r_aux_i = 0
    /\ r_proc = None
    /\ r_exec = None
    /\ r_expected = None
    /\ r_reference = None
    /\ r_checks = <<>>
    /\ r_ran = <<>>
    /\ r_fatal = None
    /\ r_stamp = FALSE
    /\ r_pc = "start"

\* The steps of run in the modes CompileFail and RunFail.
OutputNext ==
    \/ RunStart
    \/ BeginRevision
    \/ RunComplete
    \/ RunCfailTest
    \/ RunRfailCompile
    \/ RunRfailExec

(***************************************************************************)
(* Claims about the scanned output.                                        *)
(***************************************************************************)
\* stdout followed by stderr when check_stdout is set, stderr alone otherwise.
ScanBuffer(proc) ==
    IF r_props.check_stdout THEN proc.stdout \o proc.stderr ELSE proc.stderr

\* A forbid_output pattern occurs somewhere in the buffer.
ForbiddenIn(buffer) ==
    \E i \in DOMAIN r_props.forbid_output :
        IsSubstring(r_props.forbid_output[i], buffer)

\* The error patterns, trimmed, occur in this order in lines of the buffer,
\* each in a line of its own.
PatternsInOrder(buffer) ==
    \E at \in [DOMAIN r_props.error_patterns -> DOMAIN Lines(buffer)] :
        /\ \A i \in DOMAIN at :
              IsSubstring(Trim(r_props.error_patterns[i]), Lines(buffer)[at[i]])
        /\ \A i, j \in DOMAIN at : i < j => at[i] < at[j]

ErrorPatternsChecked ==
    \E k \in DOMAIN r_checks : r_checks[k] = "check_error_patterns"

ErrorPatternsPassed ==
    \E k \in DOMAIN r_checks :
        /\ r_checks[k] = "check_error_patterns"
        /\ k < Len(r_checks) \/ r_fatal = None

\* C29: the buffer scanned for error_patterns and forbid_output is stdout and
\* then stderr when check_stdout is set, stderr alone otherwise: a CompileFail
\* revision whose compiler output has a forbid_output pattern anywhere in
\* that buffer has failed, it fails with "forbidden pattern found" only when
\* the buffer has one, and in CompileFail and RunFail mode the error-pattern
\* check passes exactly when the patterns match the lines of that buffer.
C29_ScanBuffer ==
    /\ (r_config.mode = "CompileFail" /\ r_proc # None) =>
          /\ ForbiddenIn(ScanBuffer(r_proc[1])) => r_pc = "failed"
          /\ r_fatal = Some("forbidden pattern found in compiler output") =>
                ForbiddenIn(ScanBuffer(r_proc[1]))
          /\ (ErrorPatternsChecked /\ r_props.error_patterns # <<>>) =>
                (ErrorPatternsPassed <=> PatternsInOrder(ScanBuffer(r_proc[1])))
    /\ (/\ r_config.mode = "RunFail"
        /\ r_exec # None
        /\ ErrorPatternsChecked
        /\ r_props.error_patterns # <<>>) =>
          (ErrorPatternsPassed <=> PatternsInOrder(ScanBuffer(r_exec[1])))

C29_Witness ==
    /\ r_config.mode = "CompileFail"
    /\ r_proc # None
    /\ r_props.check_stdout
    /\ r_props.forbid_output = <<<<"y">>>>
    /\ r_proc[1].stdout = <<"y", "\n">>
    /\ r_proc[1].stderr = <<"x", "\n">>
    /\ r_fatal = Some("forbidden pattern found in compiler output")

\* The first k error patterns, trimmed, occur in this order in lines of the
\* buffer, each in a line of its own.
PrefixInOrder(buffer, k) ==
    \E at \in [1..k -> DOMAIN Lines(buffer)] :
        /\ \A i \in 1..k : IsSubstring(Trim(r_props.error_patterns[i]), Lines(buffer)[at[i]])
        /\ \A i, j \in 1..k : i < j => at[i] < at[j]

\* The patterns from the first one that finds no line of its own on.
FromFirstUnmatched(buffer) ==
    LET k == CHOOSE n \in 0..Len(r_props.error_patterns) :
                 /\ PrefixInOrder(buffer, n)
                 /\ n < Len(r_props.error_patterns) => ~PrefixInOrder(buffer, n + 1)
    IN  SubSeq(r_props.error_patterns, k + 1, Len(r_props.error_patterns))

\* The buffer check_error_patterns was called on, once it was called.
CheckedBuffer ==
    IF r_config.mode = "CompileFail" THEN ScanBuffer(r_proc[1]) ELSE ScanBuffer(r_exec[1])

\* What C39 says of a call of check_error_patterns.
SubsequenceVerdict ==
    LET buffer == CheckedBuffer
    IN  /\ ErrorPatternsPassed <=> PatternsInOrder(buffer)
        /\ ~ErrorPatternsPassed =>
              /\ missing_patterns(r_props, buffer) = FromFirstUnmatched(buffer)
              /\ r_fatal = Some("error pattern not found!")
                    <=> Len(FromFirstUnmatched(buffer)) = 1
              /\ r_fatal = Some("multiple error patterns not found")
                    <=> Len(FromFirstUnmatched(buffer)) > 1

HEAD_LEN == 2

TAIL_LEN == 3

MaxChunk == 4

MaxChunks == 4

\* The bytes of the stream, each one telling its position.
StreamBytes == <<"a","b","c","d","e","f","g","h","i","j","k","l","m","n","o","p","q","r","s","t","u","v","w","x","y","z">>

Reverse(s) == [i \in 1..Len(s) |-> s[Len(s) + 1 - i]]

\* <[T]>::rotate_left of the standard library.
rotate_left_std(slice, places) ==
    SubSeq(slice, places + 1, Len(slice)) \o SubSeq(slice, 1, places)

\* rotate_left of the build with the feature "stable", lines 1366-1376.
rotate_left(slice, places) ==
    LET reversed == Reverse(slice)
    IN  Reverse(SubSeq(reversed, 1, places))
        \o Reverse(SubSeq(reversed, places + 1, Len(reversed)))

Full(bytes) == [kind |-> "Full", bytes |-> bytes]

Abbreviated(head, skipped, tail) ==
    [kind |-> "Abbreviated", head |-> head, skipped |-> skipped, tail |-> tail]

\* A mutant of extend: an append to an Abbreviated capture is not counted.
extend_skipped_not_counted(self, data, stable) ==
    IF self.kind = "Full"
    THEN LET bytes   == self.bytes \o data
             new_len == Len(bytes)
         IN  IF new_len <= HEAD_LEN + TAIL_LEN THEN Full(bytes)
             ELSE Abbreviated(SubSeq(bytes, 1, new_len - TAIL_LEN),
                              new_len - HEAD_LEN - TAIL_LEN,
                              SubSeq(bytes, new_len - TAIL_LEN + 1, new_len))
    ELSE self

\* ProcOutput::extend, lines 1305-1333.
extend(self, data, stable) ==
    IF self.kind = "Full"
    THEN LET bytes   == self.bytes \o data
             new_len == Len(bytes)
         IN  IF new_len <= HEAD_LEN + TAIL_LEN THEN Full(bytes)
             ELSE Abbreviated(SubSeq(bytes, 1, new_len - TAIL_LEN),
                              new_len - HEAD_LEN - TAIL_LEN,
                              SubSeq(bytes, new_len - TAIL_LEN + 1, new_len))
    ELSE IF Len(data) <= TAIL_LEN
         THEN LET copied == data \o SubSeq(self.tail, Len(data) + 1, Len(self.tail))
              IN  Abbreviated(self.head, self.skipped + Len(data),
                              IF stable THEN rotate_left(copied, Len(data))
                              ELSE rotate_left_std(copied, Len(data)))
         ELSE Abbreviated(self.head, self.skipped + Len(data),
                          SubSeq(data, Len(data) - TAIL_LEN + 1, Len(data)))

\* The decimal digits of a number, as `{}` writes it.
RECURSIVE Decimal(_)
Decimal(n) ==
    IF n < 10 THEN <<<<"0","1","2","3","4","5","6","7","8","9">>[n + 1]>>
    ELSE Decimal(n \div 10) \o <<<<"0","1","2","3","4","5","6","7","8","9">>[(n % 10) + 1]>>

\* ProcOutput::into_bytes, lines 1335-1344.
into_bytes(self) ==
    IF self.kind = "Full" THEN self.bytes
    ELSE self.head
         \o <<"\n","\n","<","<","<","<","<","<"," ","S","K","I","P","P","E","D"," ">> \o Decimal(self.skipped) \o <<" ","B","Y","T","E","S"," ",">",">",">",">",">",">","\n","\n">>
         \o self.tail

CaptureInit ==
    /\ c_stable \in BOOLEAN
    /\ c_sizes \in SeqsUpTo(1..MaxChunk, MaxChunks)
    /\ c_i = 0
    /\ c_read = 0
    /\ c_out = Full(<<>>)
    /\ c_bytes = None
    /\ c_pc = "read"

CaptureIdle ==
    /\ c_stable = FALSE
    /\ c_sizes = <<>>
    /\ c_i = 0
    /\ c_read = 0
    /\ c_out = Full(<<>>)
    /\ c_bytes = None
    /\ c_pc = "idle"

\* The callback of read2 on one chunk of the pipe, lines 1352-1355.
CaptureExtend ==
    /\ c_pc = "read"
    /\ c_i < Len(c_sizes)
    /\ c_out' = extend(c_out, SubSeq(StreamBytes, c_read + 1, c_read + c_sizes[c_i + 1]),
                       c_stable)
    /\ c_read' = c_read + c_sizes[c_i + 1]
    /\ c_i' = c_i + 1
    /\ UNCHANGED <<c_stable, c_sizes, c_bytes, c_pc>>
    /\ UNCHANGED NotCapture

\* The pipe is at its end: into_bytes, lines 1358-1363.
CaptureIntoBytes ==
    /\ c_pc = "read"
    /\ c_i = Len(c_sizes)
    /\ c_bytes' = Some(into_bytes(c_out))
    /\ c_pc' = "done"
    /\ UNCHANGED <<c_stable, c_sizes, c_i, c_read, c_out>>
    /\ UNCHANGED NotCapture

CaptureNext == CaptureExtend \/ CaptureIntoBytes

(***************************************************************************)
(* Claims about the capture.                                               *)
(***************************************************************************)
\* The stream the child wrote.
Stream == SubSeq(StreamBytes, 1, c_read)

\* C30: when the stream is longer than HEAD_LEN + TAIL_LEN, whatever its
\* chunks, the capture is the first HEAD_LEN bytes of the stream, the marker
\* `<<<<<< SKIPPED N BYTES >>>>>>` with N the number of bytes left out, and
\* the last TAIL_LEN bytes of the stream.
C30_HeadTailCapture ==
    (c_pc = "done" /\ Len(Stream) > HEAD_LEN + TAIL_LEN) =>
       c_bytes = Some(SubSeq(Stream, 1, HEAD_LEN)
                      \o <<"\n","\n","<","<","<","<","<","<"," ","S","K","I","P","P","E","D"," ">>
                      \o Decimal(Len(Stream) - HEAD_LEN - TAIL_LEN)
                      \o <<" ","B","Y","T","E","S"," ",">",">",">",">",">",">","\n","\n">>
                      \o SubSeq(Stream, Len(Stream) - TAIL_LEN + 1, Len(Stream)))

(***************************************************************************)
(* runtest.rs: run_pretty_test, the pretty-printing rounds and the         *)
(* type-checks of one revision of a Pretty test.                           *)
(***************************************************************************)
\* The texts a pretty test meets: sources, printed sources and references.
PrettyTexts == {<<"a">>, <<"a","\r">>, <<"b">>}

\* What a child rustc can come to: None when it could not be started.
PrettyOutcomes ==
    {None} \cup {Some(ProcRes(s, o, <<>>)) : s \in {Some(0), Some(1)}, o \in PrettyTexts}

\* print_source, lines 294-310: the arguments and the standard input.
print_source(cx, src, pretty_type) ==
    [cmd |-> "print_source", pretty_type |-> pretty_type, input |-> src,
     args |-> <<"-", "-Z", <<"unpretty=", pretty_type>>, "--target", HostConfig.target, "-L", "aux_dir">>
              \o cx.props.compile_flags]

\* A mutant of typecheck_source: a compile with code generation.
typecheck_source_with_codegen(cx, src) ==
    [cmd |-> "typecheck_source", pretty_type |-> "", input |-> src,
     args |-> <<"-", "--out-dir", "out_dir">> \o cx.props.compile_flags]

\* typecheck_source, lines 332-362: the arguments and the standard input.
typecheck_source(cx, src) ==
    [cmd |-> "typecheck_source", pretty_type |-> "", input |-> src,
     args |-> <<"-", "-Zno-trans", "--out-dir", "out_dir",
                <<"--target=", IF cx.props.force_host THEN HostConfig.host ELSE HostConfig.target>>,
                "-L", HostConfig.build_base, "-L", "aux_dir">>
              \o (IF cx.revision # None THEN <<"--cfg", cx.revision[1]>> ELSE <<>>)
              \o cx.props.compile_flags]

\* The child of a command and what it came to.
Child(command, res) == [command |-> command, res |-> res]

\* A mutant of rounds: one round whatever pp_exact.
rounds_always_one(props) == 1

\* run_pretty_test, line 225.
rounds(props) == IF props.pp_exact # None THEN 1 ELSE 2

PrettyFatal(msg) ==
    /\ p_fatal' = Some(msg)
    /\ p_pc' = "failed"

PrettyInit ==
    /\ p_stable \in BOOLEAN
    /\ p_cx \in [props : [pp_exact : {None, Some("t.pp")},
                          pretty_mode : {"normal"},
                          pretty_compare_only : BOOLEAN,
                          pretty_expanded : BOOLEAN,
                          force_host : {FALSE},
                          compile_flags : {<<>>, <<"-O">>}],
                 revision : {None, Some(<<"a">>)}]
    /\ p_files \in UNION {[d -> PrettyTexts \ {<<"b">>}] : d \in {{"t.rs"}, {"t.rs", "t.pp"}}}
    /\ p_srcs = <<>>
    /\ p_round = 0
    /\ p_compared = None
    /\ p_log = <<>>
    /\ p_fatal = None
    /\ p_pc = "start"

PrettyIdle ==
    /\ p_stable = FALSE
    /\ p_cx = [props |-> [pp_exact |-> None, pretty_mode |-> "normal", pretty_compare_only |-> FALSE,
                          pretty_expanded |-> FALSE, force_host |-> FALSE, compile_flags |-> <<>>],
               revision |-> None]
    /\ p_files = [d \in {"t.rs"} |-> <<>>]
    /\ p_srcs = <<>>
    /\ p_round = 0
    /\ p_compared = None
    /\ p_log = <<>>
    /\ p_fatal = None
    /\ p_pc = "idle"

\* run_pretty_test of the build with the feature "stable", lines 212-215.
PrettyStable ==
    /\ p_pc = "start"
    /\ p_stable
    /\ PrettyFatal("pretty-printing tests can only be used with nightly Rust")
    /\ UNCHANGED <<p_stable, p_cx, p_files, p_srcs, p_round, p_compared, p_log>>
    /\ UNCHANGED NotPretty

\* run_pretty_test, lines 219-231: the source of the test is read.
PrettyBegin ==
    /\ p_pc = "start"
    /\ ~p_stable
    /\ p_srcs' = <<p_files["t.rs"]>>
    /\ p_round' = 0
    /\ p_pc' = "round"
    /\ UNCHANGED <<p_stable, p_cx, p_files, p_compared, p_log, p_fatal>>
    /\ UNCHANGED NotPretty

\* run_pretty_test, lines 232-246: one round of the loop.
PrettyRound ==
    /\ p_pc = "round"
    /\ p_round < rounds(p_cx.props)
    /\ \E res \in PrettyOutcomes :
          /\ p_log' = Append(p_log, Child(print_source(p_cx, p_srcs[p_round + 1], p_cx.props.pretty_mode), res))
          /\ IF res = None
             THEN /\ PrettyFatal("failed to exec rustc")
                  /\ UNCHANGED <<p_srcs, p_round>>
             ELSE IF ~success(res[1].status)
             THEN /\ PrettyFatal("pretty-printing failed in round")
                  /\ UNCHANGED <<p_srcs, p_round>>
             ELSE /\ p_srcs' = Append(p_srcs, res[1].stdout)
                  /\ p_round' = p_round + 1
                  /\ UNCHANGED <<p_fatal, p_pc>>
    /\ UNCHANGED <<p_stable, p_cx, p_files, p_compared>>
    /\ UNCHANGED NotPretty

\* run_pretty_test, lines 248-269: the comparison.
PrettyCompare ==
    /\ p_pc = "round"
    /\ p_round >= rounds(p_cx.props)
    /\ IF p_cx.props.pp_exact # None /\ p_cx.props.pp_exact[1] \notin DOMAIN p_files
       THEN /\ PrettyFatal("called Result::unwrap() on an Err value")
            /\ UNCHANGED p_compared
       ELSE LET exact    == p_cx.props.pp_exact # None
                expected == IF exact THEN p_files[p_cx.props.pp_exact[1]]
                            ELSE p_srcs[Len(p_srcs) - 1]
                actual   == p_srcs[Len(p_srcs)]
                compared == [expected |-> IF exact THEN Replace(expected, <<"\r">>, <<>>) ELSE expected,
                             actual   |-> IF exact THEN Replace(actual, <<"\r">>, <<>>) ELSE actual]
            IN  /\ p_compared' = Some(compared)
                /\ IF compared.expected # compared.actual
                   THEN PrettyFatal("pretty-printed source does not match expected source")
                   ELSE /\ p_pc' = IF p_cx.props.pretty_compare_only THEN "done" ELSE "typecheck"
                        /\ UNCHANGED p_fatal
    /\ UNCHANGED <<p_stable, p_cx, p_files, p_srcs, p_round, p_log>>
    /\ UNCHANGED NotPretty

\* run_pretty_test, lines 271-277: the type-check of the printed source.
PrettyTypecheck ==
    /\ p_pc = "typecheck"
    /\ \E res \in PrettyOutcomes :
          /\ p_log' = Append(p_log, Child(typecheck_source(p_cx, p_compared[1].actual), res))
          /\ IF res = None
             THEN PrettyFatal("failed to exec rustc")
             ELSE IF ~success(res[1].status)
             THEN PrettyFatal("pretty-printed source does not typecheck")
             ELSE /\ p_pc' = IF p_cx.props.pretty_expanded THEN "expanded" ELSE "done"
                  /\ UNCHANGED p_fatal
    /\ UNCHANGED <<p_stable, p_cx, p_files, p_srcs, p_round, p_compared>>
    /\ UNCHANGED NotPretty

\* run_pretty_test, lines 279-283: the expanded pretty-print.
PrettyExpanded ==
    /\ p_pc = "expanded"
    /\ \E res \in PrettyOutcomes :
          /\ p_log' = Append(p_log, Child(print_source(p_cx, p_srcs[p_round + 1], "expanded"), res))
          /\ IF res = None
             THEN PrettyFatal("failed to exec rustc")
             ELSE IF ~success(res[1].status)
             THEN PrettyFatal("pretty-printing (expanded) failed")
             ELSE /\ p_pc' = "typecheck_expanded"
                  /\ UNCHANGED p_fatal
    /\ UNCHANGED <<p_stable, p_cx, p_files, p_srcs, p_round, p_compared>>
    /\ UNCHANGED NotPretty

\* run_pretty_test, lines 285-291: the type-check of the expanded source.
PrettyTypecheckExpanded ==
    /\ p_pc = "typecheck_expanded"
    /\ \E res \in PrettyOutcomes :
          /\ p_log' = Append(p_log, Child(typecheck_source(p_cx, p_log[Len(p_log)].res[1].stdout), res))
          /\ IF res = None
             THEN PrettyFatal("failed to exec rustc")
             ELSE IF ~success(res[1].status)
             THEN PrettyFatal("pretty-printed source (expanded) does not typecheck")
             ELSE /\ p_pc' = "done"
                  /\ UNCHANGED p_fatal
    /\ UNCHANGED <<p_stable, p_cx, p_files, p_srcs, p_round, p_compared>>
    /\ UNCHANGED NotPretty

PrettyNext ==
    \/ PrettyStable
    \/ PrettyBegin
    \/ PrettyRound
    \/ PrettyCompare
    \/ PrettyTypecheck
    \/ PrettyExpanded
    \/ PrettyTypecheckExpanded

(***************************************************************************)
(* Claims about the Pretty mode.                                           *)
(***************************************************************************)
\* The children of the rounds of the loop: every print_source but the
\* expanded one, which comes after the comparison.
RoundChildren ==
    SelectSeq(p_log, LAMBDA c : c.command.cmd = "print_source" /\ c.command.pretty_type # "expanded")

RoundFailed(c) == c.res = None \/ ~success(c.res[1].status)

PrettyEnded == p_pc \in {"done", "failed"}

StripCr(s) == SelectSeq(s, LAMBDA ch : ch # "\r")

\* What C31 says of the rounds and of the comparison.
PrettyRoundsAndComparison ==
    LET exact == p_cx.props.pp_exact # None
        n     == IF exact THEN 1 ELSE 2
        rs    == RoundChildren
    IN  /\ Len(rs) <= n
        \* a test that ended without a failing round has run exactly n rounds
        /\ (PrettyEnded /\ \A i \in 1..Len(rs) : ~RoundFailed(rs[i])) => Len(rs) = n
        \* round 1 reads the test file, round 2 the output of round 1
        /\ \A i \in 1..Len(rs) :
              rs[i].command.input = IF i = 1 THEN p_files["t.rs"] ELSE rs[i - 1].res[1].stdout
        \* a failing round is fatal and the last child of the test
        /\ \A i \in 1..Len(p_log) :
              (p_log[i].command.cmd = "print_source" /\ RoundFailed(p_log[i])) =>
                 i = Len(p_log) /\ p_pc = "failed" /\ p_fatal # None
        \* the comparison
        /\ p_compared # None =>
              /\ Len(rs) = n
              /\ \A i \in 1..n : ~RoundFailed(rs[i])
              /\ IF exact
                 THEN /\ p_cx.props.pp_exact[1] \in DOMAIN p_files
                      /\ p_compared[1].expected = StripCr(p_files[p_cx.props.pp_exact[1]])
                      /\ p_compared[1].actual = StripCr(rs[1].res[1].stdout)
                 ELSE /\ p_compared[1].expected = rs[1].res[1].stdout
                      /\ p_compared[1].actual = rs[2].res[1].stdout

\* C31, as stated: in Pretty mode without pp_exact exactly two rounds run,
\* round 2 reading the output of round 1, and the outputs of the two rounds
\* are compared; with pp_exact exactly one round runs and its output is
\* compared with the reference file, carriage returns removed from both sides
\* in this case only; a round that exits with failure is fatal and the last.
C31_PrettyRounds == PrettyRoundsAndComparison

\* C31, for the build the loop is compiled in: in a build without the
\* feature "stable" the rounds and the comparison are as C31 says; in a build
\* with the feature, a Pretty test is fatal before any round.
C31_PrettyRoundsNightly ==
    /\ ~p_stable => PrettyRoundsAndComparison
    /\ p_stable => p_log = <<>> /\ p_compared = None /\ (PrettyEnded => p_fatal # None)

\* Two rounds have run on a source with a carriage return, and their outputs
\* have been compared as they are.
C31_Witness ==
    /\ ~p_stable
    /\ p_cx.props.pp_exact = None
    /\ p_compared # None
    /\ Len(RoundChildren) = 2
    /\ "\r" \in {p_compared[1].actual[i] : i \in 1..Len(p_compared[1].actual)}

ComparisonSucceeded == p_compared # None /\ p_compared[1].expected = p_compared[1].actual

IsTypecheck(c) == c.command.cmd = "typecheck_source"

NoTrans(c) == \E k \in 1..Len(c.command.args) : c.command.args[k] = "-Zno-trans"

\* The children that type-check, in order.
Typechecks == SelectSeq(p_log, IsTypecheck)

\* The expanded pretty-prints, in order.
ExpandedPrints ==
    SelectSeq(p_log, LAMBDA c : c.command.cmd = "print_source" /\ c.command.pretty_type = "expanded")

\* A type-check runs after the comparison has succeeded only, without code
\* generation, first on the compared output and then on the expanded one.
TypechecksInOrder ==
    /\ Typechecks # <<>> => ComparisonSucceeded
    /\ ExpandedPrints # <<>> =>
          /\ p_cx.props.pretty_expanded
          /\ Typechecks # <<>> /\ ~RoundFailed(Typechecks[1])
          /\ Len(ExpandedPrints) = 1
          /\ ExpandedPrints[1].command.input = p_srcs[Len(p_srcs)]
    /\ Len(Typechecks) <= 2
    /\ \A i \in 1..Len(Typechecks) : NoTrans(Typechecks[i])
    /\ Len(Typechecks) >= 1 => Typechecks[1].command.input = p_compared[1].actual
    /\ Len(Typechecks) = 2 =>
          /\ ExpandedPrints # <<>> /\ ~RoundFailed(ExpandedPrints[1])
          /\ Typechecks[2].command.input = ExpandedPrints[1].res[1].stdout

\* C32, as stated: every Pretty test whose comparison succeeds has its
\* result type-checked by a compile without code generation, and with
\* pretty_expanded an expanded pretty-print is made and type-checked as well;
\* no type-check runs before the comparison has succeeded.
C32_TypecheckAfterComparison ==
    /\ []TypechecksInOrder
    /\ ComparisonSucceeded ~> (Typechecks # <<>>)
    /\ (Typechecks # <<>> /\ ~RoundFailed(Typechecks[1]) /\ p_cx.props.pretty_expanded)
          ~> (ExpandedPrints # <<>>)
    /\ (ExpandedPrints # <<>> /\ ~RoundFailed(ExpandedPrints[1])) ~> (Len(Typechecks) = 2)

\* C32, with the directive that ends the test at the comparison: the result
\* is type-checked unless pretty_compare_only is set, in which case the test
\* returns after the comparison and no type-check is ever made.
C32_TypecheckUnlessCompareOnly ==
    /\ []TypechecksInOrder
    /\ [](p_cx.props.pretty_compare_only => Typechecks = <<>> /\ ExpandedPrints = <<>>)
    /\ [](ComparisonSucceeded /\ p_cx.props.pretty_compare_only => p_pc = "done")
    /\ (ComparisonSucceeded /\ ~p_cx.props.pretty_compare_only) ~> (Typechecks # <<>>)
    /\ (Typechecks # <<>> /\ ~RoundFailed(Typechecks[1]) /\ p_cx.props.pretty_expanded)
          ~> (ExpandedPrints # <<>>)
    /\ (ExpandedPrints # <<>> /\ ~RoundFailed(ExpandedPrints[1])) ~> (Len(Typechecks) = 2)

\* A test with pretty_expanded has returned after both type-checks.
C32_Witness ==
    /\ p_pc = "done"
    /\ p_cx.props.pretty_expanded
    /\ ComparisonSucceeded
    /\ Len(Typechecks) = 2
    /\ Len(ExpandedPrints) = 1

(***************************************************************************)
(* runtest.rs: the command of the primary compile of a revision.           *)
(***************************************************************************)
\* split_maybe_args, lines 902-917.
split_maybe_args(argstr) ==
    IF argstr = None THEN <<>>
    ELSE SelectSeq(SplitChars(argstr[1], {" "}),
                   LAMBDA s : \E i \in 1..Len(s) : ~IsWhitespace(s[i]))

\* make_exe_name and aux_output_dir_name of the test t.rs.
make_exe_name(config) == config.build_base \o <<"/","t",".">> \o config.stage_id

aux_output_dir_name(config) == config.build_base \o <<"/","t",".">> \o config.stage_id \o <<".","a","u","x">>

\* A mutant of make_compile_args: the linker override follows compile_flags.
make_compile_args_linker_last(config, props, revision, input_file, output_file, incremental_dir) ==
    <<input_file, <<"-","L">>, config.build_base>>
    \o (IF revision # None THEN <<<<"-","-","c","f","g">>, revision[1]>> ELSE <<>>)
    \o (IF config.mode = "CompileFail" /\ props.error_patterns = <<>>
        THEN <<<<"-","-","e","r","r","o","r","-","f","o","r","m","a","t">>, <<"j","s","o","n">>>> ELSE <<>>)
    \o <<<<"-","o">>, output_file>>
    \o props.compile_flags
    \o (IF config.linker # None THEN <<<<"-","C","l","i","n","k","e","r","=">> \o config.linker[1]>> ELSE <<>>)

\* A mutant of make_compile_args: JSON diagnostics in CompileFail mode
\* whatever the error patterns.
make_compile_args_json_always(config, props, revision, input_file, output_file, incremental_dir) ==
    <<input_file, <<"-","L">>, config.build_base>>
    \o (IF config.mode = "CompileFail" THEN <<<<"-","-","e","r","r","o","r","-","f","o","r","m","a","t">>, <<"j","s","o","n">>>> ELSE <<>>)
    \o <<<<"-","o">>, output_file>>
    \o props.compile_flags

\* make_compile_args, lines 753-811, with output_file a ThisFile;
\* props.incremental_dir is a field header.rs does not set.
make_compile_args(config, props, revision, input_file, output_file, incremental_dir) ==
    LET custom_target ==
            \E i \in 1..Len(props.compile_flags) : StartsWith(props.compile_flags[i], <<"-","-","t","a","r","g","e","t">>)
        target == IF props.force_host THEN config.host ELSE config.target
    IN  <<input_file, <<"-","L">>, config.build_base>>
        \o (IF ~custom_target THEN <<<<"-","-","t","a","r","g","e","t","=">> \o target>> ELSE <<>>)
        \o (IF revision # None THEN <<<<"-","-","c","f","g">>, revision[1]>> ELSE <<>>)
        \o (IF incremental_dir # None
            THEN <<<<"-","Z">>, <<"i","n","c","r","e","m","e","n","t","a","l","=">> \o incremental_dir[1],
                   <<"-","Z">>, <<"i","n","c","r","e","m","e","n","t","a","l","-","v","e","r","i","f","y","-","i","c","h">>, <<"-","Z">>, <<"i","n","c","r","e","m","e","n","t","a","l","-","q","u","e","r","i","e","s">>>>
            ELSE <<>>)
        \o (IF config.mode = "CompileFail" /\ props.error_patterns = <<>>
            THEN <<<<"-","-","e","r","r","o","r","-","f","o","r","m","a","t">>, <<"j","s","o","n">>>> ELSE <<>>)
        \o (IF config.target = <<"w","a","s","m","3","2","-","u","n","k","n","o","w","n","-","u","n","k","n","o","w","n">> THEN <<>>
            ELSE IF ~props.no_prefer_dynamic THEN <<<<"-","C">>, <<"p","r","e","f","e","r","-","d","y","n","a","m","i","c">>>> ELSE <<>>)
        \o <<<<"-","o">>, output_file>>
        \o (IF props.force_host THEN split_maybe_args(config.host_rustcflags)
            ELSE split_maybe_args(config.target_rustcflags))
        \o (IF config.linker # None THEN <<<<"-","C","l","i","n","k","e","r","=">> \o config.linker[1]>> ELSE <<>>)
        \o props.compile_flags

\* compile_test, lines 533-552: the arguments handed to
\* compose_and_run_compiler.
compile_test(config, props, revision, incremental_dir) ==
    make_compile_args(config, props, revision, TestDir \o <<"/","t",".","r","s">>, make_exe_name(config),
                      incremental_dir)
    \o <<<<"-","L">>, aux_output_dir_name(config)>>
    \o (IF config.mode \in {"CompileFail", "Ui"} THEN <<<<"-","A">>, <<"u","n","u","s","e","d">>>> ELSE <<>>)

MaxArgsLines == 2

ArgsLinePool ==
    {<<"/","/"," ","c","o","m","p","i","l","e","-","f","l","a","g","s",":","-","O">>,
     <<"/","/"," ","c","o","m","p","i","l","e","-","f","l","a","g","s",":"," ","-","-","t","a","r","g","e","t","=","t"," ","-","g">>,
     <<"/","/"," ","f","o","r","c","e","-","h","o","s","t">>,
     <<"/","/"," ","n","o","-","p","r","e","f","e","r","-","d","y","n","a","m","i","c">>,
     <<"/","/"," ","e","r","r","o","r","-","p","a","t","t","e","r","n",":","x">>,
     <<"/","/"," ","r","e","v","i","s","i","o","n","s",":"," ","a">>}

\* The configurations of the compiling modes: a host build without a linker
\* override, and a build for wasm32 with one.
ArgsConfigs ==
    {Config(m, HostConfig.target, FALSE)
        @@ [linker |-> None, host_rustcflags |-> None, target_rustcflags |-> Some(<<"-","L"," "," ","x">>)] :
       m \in {"CompileFail", "RunFail", "RunPass", "Ui"}}
    \cup {Config(m, <<"w","a","s","m","3","2","-","u","n","k","n","o","w","n","-","u","n","k","n","o","w","n">>, FALSE)
             @@ [linker |-> Some(<<"l","d">>), host_rustcflags |-> Some(<<"-","h">>), target_rustcflags |-> None] :
            m \in {"CompileFail", "RunFail", "RunPass", "Ui"}}

ArgsInit ==
    /\ r_config \in ArgsConfigs
    /\ r_file \in {[is_dir |-> FALSE, lines |-> ls] :
                     ls \in SeqsUpTo(ArgsLinePool, MaxArgsLines)}
    /\ r_aux_files = PlainAuxFiles
    /\ r_aux_log = <<>>
    /\ r_env = <<>>
    /\ r_base_props = TestProps_new
    /\ r_idx = 0
    /\ r_revision = None
    /\ r_props = TestProps_new
    /\ r_aux_i = 0
    /\ r_proc = None
    /\ r_exec = None
    /\ r_expected = None
    /\ r_reference = None
    /\ r_checks = <<>>
    /\ r_ran = <<>>
    /\ r_fatal = None
    /\ r_stamp = FALSE
    /\ r_pc = "start"

\* The steps of run in the modes that compile the test.
ArgsNext ==
    \/ RunStart
    \/ BeginRevision
    \/ RunComplete
    \/ RunCfailTest
    \/ RunRfailCompile
    \/ RunRfailExec
    \/ RunRpassCompile
    \/ RunRpassExec
    \/ RunUiTest
    \/ RunUiExec

(***************************************************************************)
(* Claims about the command of the primary compile.                        *)
(***************************************************************************)
IncrementalDirs == {None, Some(<<"/","i">>)}

\* The arguments of the primary compile of the revision under way.
PrimaryCompile(incremental_dir) == compile_test(r_config, r_props, r_revision, incremental_dir)

\* The primary compile of the revision under way has been run.
Compiled_primary == r_proc # None /\ r_revision = run_plan(r_base_props)[r_idx]

IsSuffix(t, s) == Len(t) <= Len(s) /\ SubSeq(s, Len(s) - Len(t) + 1, Len(s)) = t

\* What compile_test appends to the arguments of make_compile_args.
HarnessTail ==
    <<<<"-","L">>, aux_output_dir_name(r_config)>>
    \o (IF r_config.mode \in {"CompileFail", "Ui"} THEN <<<<"-","A">>, <<"u","n","u","s","e","d">>>> ELSE <<>>)

\* C33, as stated: the user's compile_flags are the final arguments of the
\* primary compile command, in any mode.
C33_CompileFlagsLast ==
    r_proc # None =>
       \A d \in IncrementalDirs : IsSuffix(r_props.compile_flags, PrimaryCompile(d))

\* C33, with what compile_test adds: the compile_flags are the last arguments
\* make_compile_args supplies, every flag of the harness that make_compile_args
\* supplies comes before them, and compile_test appends -L with the
\* auxiliary directory and, in CompileFail and Ui mode, -A unused after them.
C33_CompileFlagsThenAuxDir ==
    r_proc # None =>
       \A d \in IncrementalDirs :
          LET args == PrimaryCompile(d)
              made == SubSeq(args, 1, Len(args) - Len(HarnessTail))
              head == SubSeq(made, 1, Len(made) - Len(r_props.compile_flags))
          IN  /\ IsSuffix(HarnessTail, args)
              /\ IsSuffix(r_props.compile_flags, made)
              /\ r_config.linker # None =>
                    \E k \in 1..Len(head) : head[k] = <<"-","C","l","i","n","k","e","r","=">> \o r_config.linker[1]
              /\ \E k \in 1..Len(head) - 1 : head[k] = <<"-","o">> /\ head[k + 1] = make_exe_name(r_config)
              /\ \A k \in 1..Len(head) : head[k] \notin {<<"-","O">>, <<"-","g">>, <<"-","-","t","a","r","g","e","t","=","t">>}

\* A test with compile-flags has been compiled in Ui mode.
C33_Witness ==
    /\ r_proc # None
    /\ r_config.mode = "Ui"
    /\ r_config.linker # None
    /\ Len(r_props.compile_flags) = 2

HasJson(args) ==
    \E k \in 1..Len(args) - 1 :
        args[k] = <<"-","-","e","r","r","o","r","-","f","o","r","m","a","t">> /\ args[k + 1] = <<"j","s","o","n">>

MatcherRun == \E k \in DOMAIN r_checks : r_checks[k] = "check_expected_errors"

\* C34: in CompileFail mode the primary compile has --error-format json
\* exactly when the test has no error patterns; check_expected_errors is run
\* on the output of a compile that had the flag only; a test with both
\* expected errors and error patterns is fatal and the matcher is not run.
C34_JsonIffNoPatterns ==
    (r_config.mode = "CompileFail" /\ r_proc # None) =>
       /\ \A d \in IncrementalDirs :
             /\ HasJson(PrimaryCompile(d)) <=> r_props.error_patterns = <<>>
             /\ MatcherRun => HasJson(PrimaryCompile(d))
       /\ (r_expected # None /\ r_expected[1] # <<>> /\ r_props.error_patterns # <<>>) =>
             /\ r_pc = "failed"
             /\ r_fatal = Some("both error pattern and expected errors specified")
             /\ ~MatcherRun

\* A CompileFail test with an error pattern and an expected error has been
\* compiled without the flag and has failed for having both.
C34_Witness ==
    /\ r_config.mode = "CompileFail"
    /\ r_proc # None
    /\ r_props.error_patterns # <<>>
    /\ r_expected # None /\ r_expected[1] # <<>>
    /\ ~HasJson(PrimaryCompile(None))
    /\ r_fatal = Some("both error pattern and expected errors specified")

\* C35: in the Abbreviated state, appending a chunk of n <= TAIL_LEN bytes
\* leaves the old tail without its first n bytes followed by the chunk, and
\* appending a longer chunk leaves the last TAIL_LEN bytes of the chunk, so
\* tail is always the last TAIL_LEN bytes of the stream, with the rotation
\* of the standard library and with the rotate_left of the stable build.
C35_TailRing ==
    /\ [][(c_out.kind = "Abbreviated" /\ c_i' = c_i + 1) =>
            LET chunk == SubSeq(StreamBytes, c_read + 1, c_read')
                n     == Len(chunk)
            IN  c_out'.tail = IF n <= TAIL_LEN
                              THEN SubSeq(c_out.tail, n + 1, TAIL_LEN) \o chunk
                              ELSE SubSeq(chunk, n - TAIL_LEN + 1, n)]_vars
    /\ [](c_out.kind = "Abbreviated" =>
            c_out.tail = SubSeq(Stream, Len(Stream) - TAIL_LEN + 1, Len(Stream)))

\* C36: the capture is Full and holds the stream verbatim while the bytes
\* appended are at most HEAD_LEN + TAIL_LEN; it is Abbreviated from the first
\* append that exceeds that total on and never Full again; when Abbreviated,
\* skipped is the bytes appended minus HEAD_LEN minus TAIL_LEN, tail has
\* TAIL_LEN bytes and head is left as it is by later appends.
C36_TwoStates ==
    /\ [](IF c_read <= HEAD_LEN + TAIL_LEN
          THEN c_out = Full(Stream)
          ELSE /\ c_out.kind = "Abbreviated"
               /\ c_out.skipped = c_read - HEAD_LEN - TAIL_LEN
               /\ Len(c_out.tail) = TAIL_LEN)
    /\ [][c_out.kind = "Abbreviated" =>
             c_out'.kind = "Abbreviated" /\ c_out'.head = c_out.head]_vars

\* A chunk has been appended to a capture that was Abbreviated already.
C36_Witness ==
    /\ c_out.kind = "Abbreviated"
    /\ c_read > Len(c_out.head) + TAIL_LEN
    /\ c_out.skipped = c_read - HEAD_LEN - TAIL_LEN

\* C38: in RunPass, RunFail and Ui mode the executable of a revision is run
\* only after the primary compile of that revision has exited with success.
C38_ExecAfterCompileSuccess ==
    (r_pc = "exec" \/ r_exec # None) =>
       /\ r_config.mode \in {"RunPass", "RunFail", "Ui"}
       /\ r_proc # None
       /\ success(r_proc[1].status)

(***************************************************************************)
(* runtest.rs: run in RunMake mode.                                        *)
(***************************************************************************)
\* RunMake on the host, on a target without a device check, and on an
\* Android target with and without a device.
RmakeConfigs ==
    {Config("RunMake", HostConfig.target, FALSE),
     Config("RunMake", <<"w","a","s","m","3","2","-","u","n","k","n","o","w","n","-","u","n","k","n","o","w","n">>, FALSE),
     Config("RunMake", <<"a","r","m","-","l","i","n","u","x","-","a","n","d","r","o","i","d","e","a","b","i">>, TRUE),
     Config("RunMake", <<"a","r","m","-","l","i","n","u","x","-","a","n","d","r","o","i","d","e","a","b","i">>, FALSE)}

\* The test files of every mode, and one whose header does not parse.
RmakeFiles == RunFiles \cup {[is_dir |-> FALSE, lines |-> <<<<"/","/","[","a">>>>]}

RmakeInit ==
    /\ r_config \in RmakeConfigs
    /\ r_file \in RmakeFiles
    /\ r_aux_files = PlainAuxFiles
    /\ r_aux_log = <<>>
    /\ r_env = <<>>
    /\ r_base_props = TestProps_new
    /\ r_idx = 0
    /\ r_revision = None
    /\ r_props = TestProps_new
    /\ r_aux_i = 0
    /\ r_proc = None
    /\ r_exec = None
    /\ r_expected = None
    /\ r_reference = None
    /\ r_checks = <<>>
    /\ r_ran = <<>>
    /\ r_fatal = None
    /\ r_stamp = FALSE
    /\ r_pc = "start"

\* The steps of run in RunMake mode.
RmakeNext ==
    \/ RunStart
    \/ BeginRevision
    \/ RunComplete
    \/ RunRmakeTest

CrossRmake == r_config.mode = "RunMake" /\ r_config.host # r_config.target

\* Neither make nor its temporary directory has been touched.
DriverUntouched == r_proc = None /\ r_checks = <<>>

\* C40, as stated: in RunMake mode with host different from target the test
\* returns as passed, make is not run, its temporary directory is not
\* touched, and the stamp file is written.
C40_CrossRmakePasses ==
    CrossRmake =>
       /\ DriverUntouched
       /\ r_pc # "failed"
       /\ r_pc = "done" => r_stamp

\* C40, for the runs that get to run_rmake_test: with host different from
\* target make is never run and its temporary directory never touched; the
\* test passes and the stamp file is written, unless run panics before any
\* revision, for an Android target without a device or a header that does
\* not parse.
C40_CrossRmakeReturns ==
    CrossRmake =>
       /\ DriverUntouched
       /\ r_pc = "failed" =>
             /\ r_ran = <<>>
             /\ r_fatal \in {Some("android device not available"),
                             Some("malformed condition directive")}
             /\ ~r_stamp
       /\ (r_fatal = Some("android device not available")) <=>
             (r_pc = "failed" /\ r_config.target \in AndroidTargets /\ ~r_config.adb_device_status)
       /\ r_pc = "done" => r_stamp /\ Len(r_ran) = Len(run_plan(r_base_props))

\* A cross-compiled RunMake test with two revisions has passed without make.
C40_Witness ==
    /\ CrossRmake
    /\ r_pc = "done"
    /\ r_stamp
    /\ Len(r_ran) = 2
    /\ DriverUntouched

(***************************************************************************)
(* Specifications.                                                         *)
(***************************************************************************)
InitHeader == HeaderInit /\ MatchIdle /\ RunIdle /\ NormalizeIdle /\ EarlyIdle /\ CaptureIdle /\ PrettyIdle

SpecHeader == InitHeader /\ [][HeaderNext]_vars

InitMatch == MatchInit /\ HeaderIdle /\ RunIdle /\ NormalizeIdle /\ EarlyIdle /\ CaptureIdle /\ PrettyIdle

SpecMatch == InitMatch /\ [][MatchNext]_vars

Init == RunInit /\ HeaderIdle /\ MatchIdle /\ NormalizeIdle /\ EarlyIdle /\ CaptureIdle /\ PrettyIdle

Spec == Init /\ [][Next]_vars

InitAux == AuxInit /\ HeaderIdle /\ MatchIdle /\ NormalizeIdle /\ EarlyIdle /\ CaptureIdle /\ PrettyIdle

SpecAux == InitAux /\ [][Next]_vars

InitNormalize == NormalizeInit /\ HeaderIdle /\ MatchIdle /\ RunIdle /\ EarlyIdle /\ CaptureIdle /\ PrettyIdle

SpecNormalize == InitNormalize /\ [][NormalizeNext]_vars

InitEarly == EarlyInit /\ HeaderIdle /\ MatchIdle /\ RunIdle /\ NormalizeIdle /\ CaptureIdle /\ PrettyIdle

SpecEarly == InitEarly /\ [][EarlyStep]_vars

InitPasses == PassesInit /\ MatchIdle /\ RunIdle /\ NormalizeIdle /\ CaptureIdle /\ PrettyIdle

SpecPasses == InitPasses /\ [][PassesNext]_vars

InitOutput == OutputInit /\ HeaderIdle /\ MatchIdle /\ NormalizeIdle /\ EarlyIdle /\ CaptureIdle /\ PrettyIdle

SpecOutput == InitOutput /\ [][OutputNext]_vars

InitCapture ==
    CaptureInit /\ HeaderIdle /\ MatchIdle /\ RunIdle /\ NormalizeIdle /\ EarlyIdle /\ PrettyIdle

SpecCapture == InitCapture /\ [][CaptureNext]_vars

InitArgs ==
    ArgsInit /\ HeaderIdle /\ MatchIdle /\ NormalizeIdle /\ EarlyIdle /\ CaptureIdle /\ PrettyIdle

SpecArgs == InitArgs /\ [][ArgsNext]_vars

InitRmake ==
    RmakeInit /\ HeaderIdle /\ MatchIdle /\ NormalizeIdle /\ EarlyIdle /\ CaptureIdle /\ PrettyIdle

SpecRmake == InitRmake /\ [][RmakeNext]_vars

InitPretty ==
    PrettyInit /\ HeaderIdle /\ MatchIdle /\ RunIdle /\ NormalizeIdle /\ EarlyIdle /\ CaptureIdle

SpecPretty == InitPretty /\ [][PrettyNext]_vars

\* run_pretty_test runs on until it returns or panics.
SpecPrettyFair == SpecPretty /\ WF_vars(PrettyNext)

=============================================================================

